---- MODULE Spec2Model ----
(***************************************************************************)
(* SignBridge gesture engine: the stabilisation pipeline between resolved  *)
(* per-frame labels and one confirmed label (OnlineLearner,                *)
(* TemporalSmoother, GestureEngine).                                       *)
(*                                                                         *)
(* Numbers.  The code computes in IEEE doubles.  Scores (nominal 0..10)    *)
(* are modelled in thousandths: the score 8.5 is 8500.  A confidence       *)
(* (nominal 0..1) is modelled in ten-thousandths, so that the code's       *)
(* score / 10 keeps the same integer: confidence 0.85 is 8500 and 1.0 is   *)
(* CONF_ONE.  The moving average is rounded to the nearest thousandth      *)
(* after each update (the double rounds to the nearest representable       *)
(* value, at a much finer grain).  The confidence best() returns is a      *)
(* quotient and is kept exact, as the pair num / den.                      *)
(***************************************************************************)
EXTENDS Integers, Sequences, FiniteSets, TLC

VARIABLES history, stats, estimator, ready, log, calls, op, ret, host,
          calibration

vars == <<history, stats, estimator, ready, log, calls, op, ret, host,
          calibration>>

\* ------------------------------------------------------------------------
\* Bounds of the exploration
\* ------------------------------------------------------------------------
\* pushes explored between two resets of the window
MaxPushes == 10
\* observe calls explored between two resets of the learner
MaxObs == 9

\* ------------------------------------------------------------------------
\* Values
\* ------------------------------------------------------------------------
Null == [isNull |-> TRUE]

SCORE_ONE == 1000
CONF_ONE == 10000

Min(a, b) == IF a < b THEN a ELSE b
Max(a, b) == IF a > b THEN a ELSE b

\* sign names fed to the smoother and the learner
Names == {"A", "S", "L"}

\* ------------------------------------------------------------------------
\* TemporalSmoother
\* ------------------------------------------------------------------------
WINDOW == 9
\* MIN_PCT = 0.48, as the fraction MIN_PCT_NUM / MIN_PCT_DEN
MIN_PCT_NUM == 48
MIN_PCT_DEN == 100


\* TS_push dropping the newest entry instead of the oldest
TS_push_dropNewest(h, name, confidence) ==
    LET h1 == Append(h, [name |-> name, confidence |-> confidence])
    IN  IF Len(h1) > WINDOW THEN SubSeq(h1, 1, WINDOW) ELSE h1

\* history.push({name, confidence}); if (history.length > WINDOW) history.shift()
TS_push(h, name, confidence) ==
    LET h1 == Append(h, [name |-> name, confidence |-> confidence])
    IN  IF Len(h1) > WINDOW THEN Tail(h1) ELSE h1

\* history.length = 0
TS_reset == << >>

\* votes[name]: the sum of the weights i (1-indexed from the oldest entry)
RECURSIVE VoteSum(_, _, _)
VoteSum(h, name, i) ==
    IF i = 0 THEN 0
    ELSE VoteSum(h, name, i - 1) + (IF h[i].name = name THEN i ELSE 0)

\* votes counting every entry once, whatever its age
votes_unweighted(h, name) == Cardinality({i \in 1..Len(h) : h[i].name = name})

votes(h, name) == VoteSum(h, name, Len(h))

\* confAcc[name]: the sum of confidence * weight
RECURSIVE ConfSum(_, _, _)
ConfSum(h, name, i) ==
    IF i = 0 THEN 0
    ELSE ConfSum(h, name, i - 1)
         + (IF h[i].name = name THEN h[i].confidence * i ELSE 0)

\* the sum of confidence * weight over every entry, whatever its name
RECURSIVE ConfSumAll(_, _)
ConfSumAll(h, i) ==
    IF i = 0 THEN 0 ELSE ConfSumAll(h, i - 1) + h[i].confidence * i

\* confAcc accumulated over all names
confAcc_allNames(h, name) == ConfSumAll(h, Len(h))

confAcc(h, name) == ConfSum(h, name, Len(h))

\* Object.entries(votes): the distinct names in the order of first insertion
RECURSIVE VoteKeys(_, _)
VoteKeys(h, i) ==
    IF i = 0 THEN << >>
    ELSE LET ks == VoteKeys(h, i - 1)
         IN  IF \E j \in 1..Len(ks) : ks[j] = h[i].name
             THEN ks ELSE Append(ks, h[i].name)

\* n * (n + 1) / 2
totalW(h) == (Len(h) * (Len(h) + 1)) \div 2


\* Eligible with the threshold lowered to 46%
Eligible_low(voteSum, tw) == voteSum * MIN_PCT_DEN >= (MIN_PCT_NUM - 2) * tw

\* Eligible with the threshold at two fifths
Eligible_twoFifths(voteSum, tw) == voteSum * 5 >= 2 * tw

\* Eligible with the threshold raised to 50%
Eligible_high(voteSum, tw) == voteSum * MIN_PCT_DEN >= (MIN_PCT_NUM + 2) * tw

\* fraction >= MIN_PCT, with fraction = voteSum / totalW
Eligible(voteSum, tw) == voteSum * MIN_PCT_DEN >= MIN_PCT_NUM * tw


\* TopLoop where a later name with an equal vote sum replaces the earlier one
RECURSIVE TopLoop_lastWins(_, _, _, _)
TopLoop_lastWins(h, ks, k, top) ==
    IF k > Len(ks) THEN top
    ELSE LET voteSum == votes(h, ks[k])
         IN  IF Eligible(voteSum, totalW(h)) /\ voteSum >= top[2]
             THEN TopLoop_lastWins(h, ks, k + 1, <<ks[k], voteSum>>)
             ELSE TopLoop_lastWins(h, ks, k + 1, top)

\* the loop over Object.entries(votes); top = <<topName, topVote>>
RECURSIVE TopLoop(_, _, _, _)
TopLoop(h, ks, k, top) ==
    IF k > Len(ks) THEN top
    ELSE LET voteSum == votes(h, ks[k])
         IN  IF Eligible(voteSum, totalW(h)) /\ voteSum > top[2]
             THEN TopLoop(h, ks, k + 1, <<ks[k], voteSum>>)
             ELSE TopLoop(h, ks, k + 1, top)


\* TooFew letting a single entry through
TooFew_one(n) == n < 1

\* if (n < 2) return null
TooFew(n) == n < 2


\* CapConfidence without the cap
CapConfidence_none(acc, v) == acc

\* Math.min(1, acc / v), as the numerator over the denominator v
CapConfidence(acc, v) == Min(CONF_ONE * v, acc)

\* best(): Null, or the winning name with its confidence num / den
TS_best(h) ==
    IF TooFew(Len(h)) THEN Null
    ELSE LET top == TopLoop(h, VoteKeys(h, Len(h)), 1, <<"", 0>>)
         IN  IF top[1] = "" THEN Null
             ELSE [name |-> top[1],
                   num  |-> CapConfidence(confAcc(h, top[1]), votes(h, top[1])),
                   den  |-> votes(h, top[1])]


\* ------------------------------------------------------------------------
\* OnlineLearner
\* ------------------------------------------------------------------------
\* EMA_ALPHA = 0.12, in hundredths
EMA_ALPHA == 12
EMA_DEN == 100
\* MAX_OFFSET = 2.5, TARGET_SCORE = 8.5, in thousandths
MAX_OFFSET == 2500
MIN_CONFIRM == 8
TARGET_SCORE == 8500

\* x / d rounded to the nearest integer, for x >= 0
RoundDiv(x, d) == (2 * x + d) \div (2 * d)


\* EmaStep without the (1 - EMA_ALPHA) factor on the old average
EmaStep_noDecay(ema, rawScore) ==
    RoundDiv(EMA_ALPHA * rawScore + EMA_DEN * ema, EMA_DEN)

\* EMA_ALPHA * rawScore + (1 - EMA_ALPHA) * s.ema
EmaStep(ema, rawScore) ==
    RoundDiv(EMA_ALPHA * rawScore + (EMA_DEN - EMA_ALPHA) * ema, EMA_DEN)

\* stats is the object keyed by sign name: a function on the observed names
OL_observe(st, name, rawScore) ==
    LET s0 == IF name \in DOMAIN st THEN st[name]
              ELSE [ema |-> rawScore, count |-> 0]
        s1 == [ema |-> EmaStep(s0.ema, rawScore), count |-> s0.count + 1]
    IN  [k \in DOMAIN st \cup {name} |-> IF k = name THEN s1 ELSE st[k]]


\* OL_adjust applying the offset one observation early
OL_adjust_early(st, name, rawScore) ==
    IF name \notin DOMAIN st \/ st[name].count < MIN_CONFIRM - 1
    THEN rawScore
    ELSE rawScore + Max(-MAX_OFFSET, Min(MAX_OFFSET, TARGET_SCORE - st[name].ema))

\* OL_adjust without the clamp on the offset
OL_adjust_unclamped(st, name, rawScore) ==
    IF name \notin DOMAIN st \/ st[name].count < MIN_CONFIRM
    THEN rawScore
    ELSE rawScore + (TARGET_SCORE - st[name].ema)

OL_adjust(st, name, rawScore) ==
    IF name \notin DOMAIN st \/ st[name].count < MIN_CONFIRM
    THEN rawScore
    ELSE rawScore + Max(-MAX_OFFSET, Min(MAX_OFFSET, TARGET_SCORE - st[name].ema))

\* stats[name]?.count || 0
OL_getCount(st, name) == IF name \in DOMAIN st THEN st[name].count ELSE 0

\* for (const key of Object.keys(stats)) delete stats[key]
OL_reset == << >>

\* JSON.parse(JSON.stringify(stats)): a copy, value by value
OL_dump(st) == [k \in DOMAIN st |-> [ema |-> st[k].ema, count |-> st[k].count]]

\* observe calls since the last learner reset
RECURSIVE SumCounts(_, _)
SumCounts(st, ks) ==
    IF ks = {} THEN 0
    ELSE LET k == CHOOSE x \in ks : TRUE
         IN  st[k].count + SumCounts(st, ks \ {k})

TotalObs(st) == SumCounts(st, DOMAIN st)

\* ------------------------------------------------------------------------
\* State
\* ------------------------------------------------------------------------
\* history    TemporalSmoother.history, oldest entry first
\* stats      OnlineLearner.stats
\* estimator  GestureEngine.estimator: "null" or "bank"
\* ready      GestureEngine.ready
\* log        every entry pushed since the window was last emptied (history
\*            variable of the proof, not program state)
\* calls      per sign, the observe calls since the learner was last cleared
\*            (history variable of the proof, not program state)
\* op         the last call and its arguments
\* ret        what the last call returned
\* host       the page that drives the engine (src/app.js): the clock
\*            Date.now() reads, lastDetectionTs and the AppState fields
\*            pendingSign, pendingSignTime, lastConfirmedSign,
\*            lastConfirmedTime and lastRawFpScore; events counts the
\*            callbacks run (history variable of the proof)
debounceMs == 380
addCooldownMs == 1400
DETECTION_INTERVAL == 80

\* the clock when the page loads: later than every interval after the zero
\* the recorded times start from
LoadTime == addCooldownMs + debounceMs + DETECTION_INTERVAL

HostInit ==
    [now |-> LoadTime, lastDetectionTs |-> 0,
     pendingSign |-> "", pendingSignTime |-> 0,
     lastConfirmedSign |-> "", lastConfirmedTime |-> 0,
     lastRawFpScore |-> 0, events |-> 0]

\* calibration  the Calibration wizard (js/calibration.js): data, isRunning,
\*              stepIndex, sampleBuf, whether onComplete holds a callback,
\*              and storage, the localStorage item the module keeps under
\*              STORAGE_KEY; onUpdate, which only feeds the display, is
\*              left out
NoItem == [present |-> FALSE]

CalibrationInit ==
    [data |-> << >>, isRunning |-> FALSE, stepIndex |-> 0,
     sampleBuf |-> << >>, onComplete |-> FALSE,
     storage |-> NoItem]

Init ==
    /\ history = << >>
    /\ stats = << >>
    /\ estimator = "null"
    /\ ready = FALSE
    /\ log = << >>
    /\ calls = [n \in Names |-> 0]
    /\ op = [fn |-> "load"]
    /\ ret = Null
    /\ host = HostInit
    /\ calibration = CalibrationInit

\* ------------------------------------------------------------------------
\* TemporalSmoother and OnlineLearner called directly (both are exported)
\* ------------------------------------------------------------------------
Push(name, confidence) ==
    /\ history' = TS_push(history, name, confidence)
    /\ log' = Append(log, [name |-> name, confidence |-> confidence])
    /\ op' = [fn |-> "push", name |-> name, confidence |-> confidence]
    /\ ret' = Null
    /\ UNCHANGED <<stats, estimator, ready, calls, host,
                 calibration>>

SmootherReset ==
    /\ history' = TS_reset
    /\ log' = << >>
    /\ op' = [fn |-> "TemporalSmoother.reset", win |-> Len(history)]
    /\ ret' = Null
    /\ UNCHANGED <<stats, estimator, ready, calls, host,
                 calibration>>

Observe(name, rawScore) ==
    /\ stats' = OL_observe(stats, name, rawScore)
    /\ calls' = [calls EXCEPT ![name] = @ + 1]
    /\ op' = [fn |-> "observe", name |-> name, score |-> rawScore,
              before |-> IF name \in DOMAIN stats THEN stats[name].ema
                         ELSE rawScore]
    /\ ret' = Null
    /\ UNCHANGED <<history, log, estimator, ready, host, calibration>>

LearnerReset ==
    /\ stats' = OL_reset
    /\ calls' = [n \in Names |-> 0]
    /\ op' = [fn |-> "OnlineLearner.reset", names |-> Cardinality(DOMAIN stats)]
    /\ ret' = Null
    /\ UNCHANGED <<history, log, estimator, ready, host, calibration>>


\* ------------------------------------------------------------------------
\* Hands
\* ------------------------------------------------------------------------
\* Landmark coordinates are kept on a grid of 1/100 of the frame: the point
\* <<44, 60, 0>> is {x: 0.44, y: 0.60, z: 0}; y grows downward.  A hand is
\* [isNull, pt]: isNull for a null / undefined landmarks array, pt the array
\* (the landmark lm[i] of the source is pt[i + 1]).
Landmarks ==
    [ thumbsUp |->
        <<<<50,80,0>>, <<43,74,0>>, <<36,64,0>>, <<36,57,0>>, <<36,50,0>>, <<44,60,0>>, <<44,56,0>>,
          <<45,59,0>>, <<45,64,0>>, <<50,58,0>>, <<50,54,0>>, <<50,58,0>>, <<50,63,0>>, <<56,60,0>>,
          <<56,56,0>>, <<55,59,0>>, <<55,64,0>>, <<61,64,0>>, <<61,60,0>>, <<60,62,0>>, <<60,67,0>>>>,
      thumbsBoth |->
        <<<<50,80,0>>, <<43,74,0>>, <<36,64,0>>, <<33,62,0>>, <<30,59,0>>, <<44,60,0>>, <<44,56,0>>,
          <<45,59,0>>, <<45,64,0>>, <<50,58,0>>, <<50,54,0>>, <<50,58,0>>, <<50,63,0>>, <<56,60,0>>,
          <<56,56,0>>, <<55,59,0>>, <<55,64,0>>, <<61,64,0>>, <<61,60,0>>, <<60,62,0>>, <<60,67,0>>>>,
      thumbsDown |->
        <<<<50,80,0>>, <<43,74,0>>, <<36,64,0>>, <<29,65,0>>, <<22,66,0>>, <<44,60,0>>, <<44,56,0>>,
          <<45,59,0>>, <<45,64,0>>, <<50,58,0>>, <<50,54,0>>, <<50,58,0>>, <<50,63,0>>, <<56,60,0>>,
          <<56,56,0>>, <<55,59,0>>, <<55,64,0>>, <<61,64,0>>, <<61,60,0>>, <<60,62,0>>, <<60,67,0>>>>,
      thumbSide |->
        <<<<50,80,0>>, <<43,74,0>>, <<36,64,0>>, <<29,62,0>>, <<22,60,0>>, <<44,60,0>>, <<44,56,0>>,
          <<45,59,0>>, <<45,64,0>>, <<50,60,0>>, <<50,54,0>>, <<50,58,0>>, <<50,63,0>>, <<56,60,0>>,
          <<56,56,0>>, <<55,59,0>>, <<55,64,0>>, <<61,64,0>>, <<61,60,0>>, <<60,62,0>>, <<60,67,0>>>>,
      L70 |->
        <<<<50,80,0>>, <<43,74,0>>, <<36,64,0>>, <<35,56,0>>, <<34,48,0>>, <<44,60,0>>, <<44,50,0>>,
          <<43,42,0>>, <<43,36,0>>, <<50,58,0>>, <<50,54,0>>, <<50,58,0>>, <<50,63,0>>, <<56,60,0>>,
          <<56,56,0>>, <<55,59,0>>, <<55,64,0>>, <<61,64,0>>, <<61,60,0>>, <<60,62,0>>, <<60,67,0>>>>,
      L40 |->
        <<<<50,80,0>>, <<43,74,0>>, <<36,64,0>>, <<39,56,0>>, <<42,49,0>>, <<44,60,0>>, <<44,50,0>>,
          <<43,42,0>>, <<43,36,0>>, <<50,58,0>>, <<50,54,0>>, <<50,58,0>>, <<50,63,0>>, <<56,60,0>>,
          <<56,56,0>>, <<55,59,0>>, <<55,64,0>>, <<61,64,0>>, <<61,60,0>>, <<60,62,0>>, <<60,67,0>>>>,
      L110 |->
        <<<<50,80,0>>, <<43,74,0>>, <<36,64,0>>, <<30,58,0>>, <<24,53,0>>, <<44,60,0>>, <<44,50,0>>,
          <<43,42,0>>, <<43,36,0>>, <<50,58,0>>, <<50,54,0>>, <<50,58,0>>, <<50,63,0>>, <<56,60,0>>,
          <<56,56,0>>, <<55,59,0>>, <<55,64,0>>, <<61,64,0>>, <<61,60,0>>, <<60,62,0>>, <<60,67,0>>>>,
      L63 |->
        <<<<50,80,0>>, <<43,74,0>>, <<36,64,0>>, <<36,56,0>>, <<36,48,0>>, <<44,60,0>>, <<44,50,0>>,
          <<43,42,0>>, <<43,36,0>>, <<50,58,0>>, <<50,54,0>>, <<50,58,0>>, <<50,63,0>>, <<56,60,0>>,
          <<56,56,0>>, <<55,59,0>>, <<55,64,0>>, <<61,64,0>>, <<61,60,0>>, <<60,62,0>>, <<60,67,0>>>>,
      L56 |->
        <<<<50,80,0>>, <<43,74,0>>, <<36,64,0>>, <<37,56,0>>, <<38,48,0>>, <<44,60,0>>, <<44,50,0>>,
          <<43,42,0>>, <<43,36,0>>, <<50,58,0>>, <<50,54,0>>, <<50,58,0>>, <<50,63,0>>, <<56,60,0>>,
          <<56,56,0>>, <<55,59,0>>, <<55,64,0>>, <<61,64,0>>, <<61,60,0>>, <<60,62,0>>, <<60,67,0>>>>,
      iLoveYou |->
        <<<<50,80,0>>, <<43,74,0>>, <<36,64,0>>, <<30,63,0>>, <<24,62,0>>, <<44,60,0>>, <<44,50,0>>,
          <<43,42,0>>, <<43,36,0>>, <<50,58,0>>, <<50,54,0>>, <<50,58,0>>, <<50,63,0>>, <<56,60,0>>,
          <<56,56,0>>, <<55,59,0>>, <<55,64,0>>, <<61,64,0>>, <<62,56,0>>, <<63,49,0>>, <<64,44,0>>>>,
      yUp |->
        <<<<50,80,0>>, <<43,74,0>>, <<36,64,0>>, <<30,63,0>>, <<24,62,0>>, <<44,60,0>>, <<44,56,0>>,
          <<45,59,0>>, <<45,64,0>>, <<50,58,0>>, <<50,54,0>>, <<50,58,0>>, <<50,63,0>>, <<56,60,0>>,
          <<56,56,0>>, <<55,59,0>>, <<55,64,0>>, <<61,64,0>>, <<62,56,0>>, <<63,49,0>>, <<64,44,0>>>>,
      yHoriz |->
        <<<<50,80,0>>, <<43,74,0>>, <<36,64,0>>, <<30,63,0>>, <<24,62,0>>, <<44,60,0>>, <<44,56,0>>,
          <<45,59,0>>, <<45,64,0>>, <<50,58,0>>, <<50,54,0>>, <<50,58,0>>, <<50,63,0>>, <<56,60,0>>,
          <<56,56,0>>, <<55,59,0>>, <<55,64,0>>, <<61,64,0>>, <<71,62,0>>, <<80,61,0>>, <<86,60,0>>>>,
      stop |->
        <<<<50,80,0>>, <<43,74,0>>, <<36,64,0>>, <<30,62,0>>, <<24,60,0>>, <<44,60,0>>, <<41,50,0>>,
          <<38,42,0>>, <<36,36,0>>, <<50,58,0>>, <<50,48,0>>, <<50,38,0>>, <<50,32,0>>, <<56,60,0>>,
          <<56,50,0>>, <<57,42,0>>, <<57,36,0>>, <<61,64,0>>, <<65,57,0>>, <<69,50,0>>, <<72,46,0>>>>,
      hello |->
        <<<<50,80,0>>, <<43,74,0>>, <<36,64,0>>, <<30,62,0>>, <<24,60,0>>, <<44,60,0>>, <<44,50,0>>,
          <<43,42,0>>, <<43,36,0>>, <<50,58,0>>, <<50,48,0>>, <<50,38,0>>, <<50,32,0>>, <<56,60,0>>,
          <<56,50,0>>, <<57,42,0>>, <<57,36,0>>, <<61,64,0>>, <<62,56,0>>, <<63,49,0>>, <<64,44,0>>>>,
      slow |->
        <<<<50,80,0>>, <<43,74,0>>, <<36,64,0>>, <<30,62,0>>, <<24,60,0>>, <<44,60,0>>, <<45,50,0>>,
          <<46,40,0>>, <<47,34,0>>, <<50,58,0>>, <<50,48,0>>, <<50,38,0>>, <<50,32,0>>, <<56,60,0>>,
          <<55,50,0>>, <<54,41,0>>, <<54,35,0>>, <<61,64,0>>, <<61,54,0>>, <<60,46,0>>, <<60,40,0>>>>,
      fiveDown |->
        <<<<50,80,0>>, <<45,84,0>>, <<44,88,0>>, <<33,82,0>>, <<30,100,0>>, <<44,98,0>>, <<44,82,0>>,
          <<44,102,0>>, <<44,116,0>>, <<50,100,0>>, <<50,82,0>>, <<50,103,0>>, <<50,118,0>>, <<56,98,0>>,
          <<56,82,0>>, <<56,102,0>>, <<56,116,0>>, <<61,95,0>>, <<61,82,0>>, <<62,98,0>>, <<62,110,0>>>>,
      dTight |->
        <<<<50,80,0>>, <<43,74,0>>, <<36,64,0>>, <<42,65,0>>, <<47,66,0>>, <<44,60,0>>, <<44,50,0>>,
          <<43,42,0>>, <<43,36,0>>, <<50,58,0>>, <<50,54,0>>, <<50,58,0>>, <<50,63,0>>, <<56,60,0>>,
          <<56,56,0>>, <<55,59,0>>, <<55,64,0>>, <<61,64,0>>, <<61,60,0>>, <<60,62,0>>, <<60,67,0>>>>,
      dLoose |->
        <<<<50,80,0>>, <<43,74,0>>, <<36,64,0>>, <<39,70,0>>, <<42,76,0>>, <<44,60,0>>, <<44,50,0>>,
          <<43,42,0>>, <<43,36,0>>, <<50,58,0>>, <<50,54,0>>, <<50,58,0>>, <<50,63,0>>, <<56,60,0>>,
          <<56,56,0>>, <<55,59,0>>, <<55,64,0>>, <<61,64,0>>, <<61,60,0>>, <<60,62,0>>, <<60,67,0>>>>,
      w |->
        <<<<50,80,0>>, <<43,74,0>>, <<36,64,0>>, <<41,66,0>>, <<46,68,0>>, <<44,60,0>>, <<44,50,0>>,
          <<43,42,0>>, <<43,36,0>>, <<50,58,0>>, <<50,48,0>>, <<50,38,0>>, <<50,32,0>>, <<56,60,0>>,
          <<56,50,0>>, <<57,42,0>>, <<57,36,0>>, <<61,64,0>>, <<61,60,0>>, <<60,62,0>>, <<60,67,0>>>>,
      v |->
        <<<<50,80,0>>, <<43,74,0>>, <<36,64,0>>, <<41,66,0>>, <<46,68,0>>, <<44,60,0>>, <<42,50,0>>,
          <<40,42,0>>, <<38,36,0>>, <<50,58,0>>, <<52,48,0>>, <<54,40,0>>, <<56,34,0>>, <<56,60,0>>,
          <<56,56,0>>, <<55,59,0>>, <<55,64,0>>, <<61,64,0>>, <<61,60,0>>, <<60,62,0>>, <<60,67,0>>>>,
      u |->
        <<<<50,80,0>>, <<43,74,0>>, <<36,64,0>>, <<41,66,0>>, <<46,68,0>>, <<44,60,0>>, <<45,50,0>>,
          <<46,40,0>>, <<47,34,0>>, <<50,58,0>>, <<51,48,0>>, <<52,38,0>>, <<52,32,0>>, <<56,60,0>>,
          <<56,56,0>>, <<55,59,0>>, <<55,64,0>>, <<61,64,0>>, <<61,60,0>>, <<60,62,0>>, <<60,67,0>>>>,
      r |->
        <<<<50,80,0>>, <<43,74,0>>, <<36,64,0>>, <<41,66,0>>, <<46,68,0>>, <<44,60,0>>, <<46,50,0>>,
          <<48,40,0>>, <<50,34,0>>, <<50,58,0>>, <<49,48,0>>, <<48,38,0>>, <<48,32,0>>, <<56,60,0>>,
          <<56,56,0>>, <<55,59,0>>, <<55,64,0>>, <<61,64,0>>, <<61,60,0>>, <<60,62,0>>, <<60,67,0>>>>,
      peace |->
        <<<<50,80,0>>, <<43,74,0>>, <<36,64,0>>, <<30,63,0>>, <<24,62,0>>, <<44,60,0>>, <<42,50,0>>,
          <<40,42,0>>, <<38,36,0>>, <<50,58,0>>, <<52,48,0>>, <<54,40,0>>, <<56,34,0>>, <<56,60,0>>,
          <<56,56,0>>, <<55,59,0>>, <<55,64,0>>, <<61,64,0>>, <<61,60,0>>, <<60,62,0>>, <<60,67,0>>>>,
      ok |->
        <<<<50,80,0>>, <<43,74,0>>, <<36,64,0>>, <<40,63,0>>, <<44,62,0>>, <<44,60,0>>, <<44,56,0>>,
          <<45,52,0>>, <<45,57,0>>, <<50,58,0>>, <<50,48,0>>, <<50,38,0>>, <<50,32,0>>, <<56,60,0>>,
          <<56,50,0>>, <<57,42,0>>, <<57,36,0>>, <<61,64,0>>, <<62,56,0>>, <<63,49,0>>, <<64,44,0>>>>,
      okLoose |->
        <<<<50,80,0>>, <<43,74,0>>, <<36,64,0>>, <<40,63,0>>, <<44,62,0>>, <<44,60,0>>, <<44,56,0>>,
          <<52,55,0>>, <<52,60,0>>, <<50,58,0>>, <<50,48,0>>, <<50,38,0>>, <<50,32,0>>, <<56,60,0>>,
          <<56,50,0>>, <<57,42,0>>, <<57,36,0>>, <<61,64,0>>, <<62,56,0>>, <<63,49,0>>, <<64,44,0>>>>,
      f |->
        <<<<50,80,0>>, <<43,74,0>>, <<36,64,0>>, <<39,66,0>>, <<42,68,0>>, <<44,60,0>>, <<44,56,0>>,
          <<46,49,0>>, <<46,54,0>>, <<50,58,0>>, <<50,48,0>>, <<50,38,0>>, <<50,32,0>>, <<56,60,0>>,
          <<56,50,0>>, <<57,42,0>>, <<57,36,0>>, <<61,64,0>>, <<62,56,0>>, <<63,49,0>>, <<64,44,0>>>>,
      flatUp |->
        <<<<50,80,0>>, <<43,74,0>>, <<36,64,0>>, <<41,66,0>>, <<46,68,0>>, <<44,60,0>>, <<44,50,0>>,
          <<43,42,0>>, <<43,36,0>>, <<50,58,0>>, <<50,48,0>>, <<50,38,0>>, <<50,32,0>>, <<56,60,0>>,
          <<56,50,0>>, <<57,42,0>>, <<57,36,0>>, <<61,64,0>>, <<62,56,0>>, <<63,49,0>>, <<64,44,0>>>>,
      flatRight |->
        <<<<50,80,0>>, <<43,74,0>>, <<36,64,0>>, <<41,66,0>>, <<46,68,0>>, <<44,60,0>>, <<53,52,0>>,
          <<60,45,0>>, <<66,40,0>>, <<50,58,0>>, <<60,52,0>>, <<70,48,0>>, <<76,44,0>>, <<56,60,0>>,
          <<66,57,0>>, <<74,54,0>>, <<80,52,0>>, <<61,64,0>>, <<69,63,0>>, <<77,62,0>>, <<82,62,0>>>>,
      fistA |->
        <<<<50,80,0>>, <<43,74,0>>, <<36,64,0>>, <<38,58,0>>, <<40,55,0>>, <<44,60,0>>, <<44,56,0>>,
          <<45,59,0>>, <<45,64,0>>, <<50,58,0>>, <<50,54,0>>, <<50,58,0>>, <<50,63,0>>, <<56,60,0>>,
          <<56,56,0>>, <<55,59,0>>, <<55,64,0>>, <<61,64,0>>, <<61,60,0>>, <<60,62,0>>, <<60,67,0>>>>,
      fistS |->
        <<<<50,80,0>>, <<43,74,0>>, <<36,64,0>>, <<42,62,0>>, <<47,60,0>>, <<44,60,0>>, <<44,56,0>>,
          <<45,59,0>>, <<45,64,0>>, <<50,58,0>>, <<50,54,0>>, <<50,58,0>>, <<50,63,0>>, <<56,60,0>>,
          <<56,56,0>>, <<55,59,0>>, <<55,64,0>>, <<61,64,0>>, <<61,60,0>>, <<60,62,0>>, <<60,67,0>>>>,
      fistT |->
        <<<<50,80,0>>, <<43,74,0>>, <<36,64,0>>, <<36,60,0>>, <<36,57,0>>, <<44,60,0>>, <<44,56,0>>,
          <<45,59,0>>, <<45,64,0>>, <<50,58,0>>, <<50,54,0>>, <<50,58,0>>, <<50,63,0>>, <<56,60,0>>,
          <<56,56,0>>, <<55,59,0>>, <<55,64,0>>, <<61,64,0>>, <<61,60,0>>, <<60,62,0>>, <<60,67,0>>>>,
      fistM |->
        <<<<50,80,0>>, <<43,74,0>>, <<36,64,0>>, <<36,63,0>>, <<36,62,0>>, <<44,60,0>>, <<44,56,0>>,
          <<45,59,0>>, <<45,64,0>>, <<50,58,0>>, <<50,54,0>>, <<50,58,0>>, <<50,63,0>>, <<56,60,0>>,
          <<56,56,0>>, <<55,59,0>>, <<55,64,0>>, <<61,64,0>>, <<61,60,0>>, <<60,62,0>>, <<60,67,0>>>>,
      fistN |->
        <<<<50,80,0>>, <<43,74,0>>, <<36,64,0>>, <<36,65,0>>, <<36,64,0>>, <<44,60,0>>, <<44,56,0>>,
          <<45,59,0>>, <<45,64,0>>, <<50,58,0>>, <<50,54,0>>, <<50,58,0>>, <<50,63,0>>, <<56,60,0>>,
          <<56,56,0>>, <<55,59,0>>, <<55,63,0>>, <<61,64,0>>, <<61,60,0>>, <<60,62,0>>, <<60,67,0>>>>,
      fistEat |->
        <<<<50,80,0>>, <<43,74,0>>, <<36,64,0>>, <<40,66,0>>, <<40,58,0>>, <<44,60,0>>, <<44,56,0>>,
          <<45,59,0>>, <<45,64,0>>, <<50,58,0>>, <<50,54,0>>, <<50,58,0>>, <<50,63,0>>, <<56,60,0>>,
          <<56,56,0>>, <<55,59,0>>, <<55,64,0>>, <<61,64,0>>, <<61,60,0>>, <<60,62,0>>, <<60,67,0>>>>,
      cOpen |->
        <<<<50,80,0>>, <<43,74,0>>, <<36,64,0>>, <<38,64,0>>, <<40,62,0>>, <<44,60,0>>, <<45,56,0>>,
          <<46,52,0>>, <<46,50,0>>, <<50,58,0>>, <<50,57,0>>, <<50,56,0>>, <<50,55,0>>, <<56,60,0>>,
          <<56,59,0>>, <<55,58,0>>, <<55,58,0>>, <<61,64,0>>, <<61,60,0>>, <<60,62,0>>, <<60,67,0>>>>,
      oTight |->
        <<<<50,80,0>>, <<43,74,0>>, <<36,64,0>>, <<42,57,0>>, <<46,54,0>>, <<44,60,0>>, <<45,56,0>>,
          <<46,52,0>>, <<46,50,0>>, <<50,58,0>>, <<50,57,0>>, <<50,56,0>>, <<50,55,0>>, <<56,60,0>>,
          <<56,59,0>>, <<55,58,0>>, <<55,58,0>>, <<61,64,0>>, <<61,60,0>>, <<60,62,0>>, <<60,67,0>>>>,
      eatUp |->
        <<<<50,80,0>>, <<43,74,0>>, <<36,64,0>>, <<37,64,0>>, <<38,62,0>>, <<44,60,0>>, <<45,55,0>>,
          <<46,51,0>>, <<46,48,0>>, <<50,58,0>>, <<50,55,0>>, <<50,52,0>>, <<50,50,0>>, <<56,60,0>>,
          <<56,57,0>>, <<55,54,0>>, <<55,52,0>>, <<61,64,0>>, <<61,60,0>>, <<60,62,0>>, <<60,67,0>>>>,
      hotDown |->
        <<<<50,80,0>>, <<43,74,0>>, <<36,64,0>>, <<37,68,0>>, <<38,70,0>>, <<44,60,0>>, <<45,63,0>>,
          <<46,66,0>>, <<46,68,0>>, <<50,58,0>>, <<50,62,0>>, <<50,66,0>>, <<50,68,0>>, <<56,60,0>>,
          <<56,63,0>>, <<55,66,0>>, <<55,68,0>>, <<61,64,0>>, <<61,60,0>>, <<60,62,0>>, <<60,67,0>>>>,
      point |->
        <<<<50,50,0>>, <<50,50,0>>, <<50,50,0>>, <<50,50,0>>, <<50,50,0>>, <<50,50,0>>, <<50,50,0>>,
          <<50,50,0>>, <<50,50,0>>, <<50,50,0>>, <<50,50,0>>, <<50,50,0>>, <<50,50,0>>, <<50,50,0>>,
          <<50,50,0>>, <<50,50,0>>, <<50,50,0>>, <<50,50,0>>, <<50,50,0>>, <<50,50,0>>, <<50,50,0>>>>,
      thumbDeep |->
        <<<<50,80,0>>, <<43,74,0>>, <<36,64,0>>, <<37,63,0>>, <<38,62,-30>>, <<44,60,0>>, <<44,56,0>>,
          <<45,59,0>>, <<45,64,0>>, <<50,58,0>>, <<50,54,0>>, <<50,58,0>>, <<50,63,0>>, <<56,60,0>>,
          <<56,56,0>>, <<55,59,0>>, <<55,64,0>>, <<61,64,0>>, <<61,60,0>>, <<60,62,0>>, <<60,67,0>>>>,
      short20 |->
        <<<<50,80,0>>, <<43,74,0>>, <<36,64,0>>, <<36,57,0>>, <<36,50,0>>, <<44,60,0>>, <<44,56,0>>,
          <<45,59,0>>, <<45,64,0>>, <<50,58,0>>, <<50,54,0>>, <<50,58,0>>, <<50,63,0>>, <<56,60,0>>,
          <<56,56,0>>, <<55,59,0>>, <<55,64,0>>, <<61,64,0>>, <<61,60,0>>, <<60,62,0>>>>,
      long22 |->
        <<<<50,80,0>>, <<43,74,0>>, <<36,64,0>>, <<36,57,0>>, <<36,50,0>>, <<44,60,0>>, <<44,56,0>>,
          <<45,59,0>>, <<45,64,0>>, <<50,58,0>>, <<50,54,0>>, <<50,58,0>>, <<50,63,0>>, <<56,60,0>>,
          <<56,56,0>>, <<55,59,0>>, <<55,64,0>>, <<61,64,0>>, <<61,60,0>>, <<60,62,0>>, <<60,67,0>>,
          <<50,50,0>>>> ]

HandIds == DOMAIN Landmarks

NoHand == [isNull |-> TRUE, pt |-> << >>]

HandOf(id) == IF id = "absent" THEN NoHand
              ELSE [isNull |-> FALSE, pt |-> Landmarks[id]]

\* !lm || lm.length < 21
Malformed(lm) == lm.isNull \/ Len(lm.pt) < 21

PX(lm, i) == lm.pt[i + 1][1]
PY(lm, i) == lm.pt[i + 1][2]
PZ(lm, i) == lm.pt[i + 1][3]

Abs(v) == IF v < 0 THEN -v ELSE v

\* Math.sign
Sign(v) == IF v > 0 THEN 1 ELSE IF v < 0 THEN -1 ELSE 0


\* ------------------------------------------------------------------------
\* GeometricAnalyzer
\* ------------------------------------------------------------------------
\* Distances are compared through their squares, in grid units: for
\* non-negative d and s,  d / s > r  exactly when  d^2 > r^2 * s^2.

\* dist(lm[a], lm[b]) squared
GA_dist2(lm, a, b) ==
      (PX(lm, a) - PX(lm, b)) * (PX(lm, a) - PX(lm, b))
    + (PY(lm, a) - PY(lm, b)) * (PY(lm, a) - PY(lm, b))
    + (PZ(lm, a) - PZ(lm, b)) * (PZ(lm, a) - PZ(lm, b))

\* handScale(lm) squared; the floor 0.01 is one grid unit
GA_handScale2(lm) == Max(1, GA_dist2(lm, 0, 9))

\* d / sc > r / 100  and  d / sc < r / 100, for squared d and sc
RatioOver(d2, sc2, r) == 10000 * d2 > r * r * sc2
RatioUnder(d2, sc2, r) == 10000 * d2 < r * r * sc2

\* tipD > mcpD * threshold, threshold in hundredths; both sides are divided
\* by the same positive scale
GA_isExtended(lm, tip, mcp, threshold) ==
    RatioOver(GA_dist2(lm, 0, tip), GA_dist2(lm, 0, mcp), threshold)

\* the angle test passing obtuse angles only
GA_angleOver58_obtuse(lm, a, b, c) ==
    LET abx == PX(lm, a) - PX(lm, b)
        aby == PY(lm, a) - PY(lm, b)
        abz == PZ(lm, a) - PZ(lm, b)
        cbx == PX(lm, c) - PX(lm, b)
        cby == PY(lm, c) - PY(lm, b)
        cbz == PZ(lm, c) - PZ(lm, b)
        dot == abx * cbx + aby * cby + abz * cbz
        ab2 == abx * abx + aby * aby + abz * abz
        cb2 == cbx * cbx + cby * cby + cbz * cbz
    IN  IF ab2 = 0 \/ cb2 = 0 THEN FALSE
        ELSE dot < 0

\* angleDeg(lm[a], lm[b], lm[c]) > 58.  A zero vector gives angle 0; else
\* the angle exceeds 58 degrees when its cosine is below cos 58, whose
\* square is 0.2808 to four places.
GA_angleOver58(lm, a, b, c) ==
    LET abx == PX(lm, a) - PX(lm, b)
        aby == PY(lm, a) - PY(lm, b)
        abz == PZ(lm, a) - PZ(lm, b)
        cbx == PX(lm, c) - PX(lm, b)
        cby == PY(lm, c) - PY(lm, b)
        cbz == PZ(lm, c) - PZ(lm, b)
        dot == abx * cbx + aby * cby + abz * cbz
        ab2 == abx * abx + aby * aby + abz * abz
        cb2 == cbx * cbx + cby * cby + cbz * cbz
    IN  IF ab2 = 0 \/ cb2 = 0 THEN FALSE
        ELSE dot < 0 \/ 10000 * dot * dot < 2808 * ab2 * cb2

GA_fingerStates(lm) ==
    [thumb  |-> GA_isExtended(lm,  4,  2, 130),
     index  |-> GA_isExtended(lm,  8,  5, 160),
     middle |-> GA_isExtended(lm, 12,  9, 160),
     ring   |-> GA_isExtended(lm, 16, 13, 155),
     pinky  |-> GA_isExtended(lm, 20, 17, 145)]

\* thumbUp giving way to the thumb-down test
thumbUp_unlessDown(lm) == PY(lm, 4) < PY(lm, 5) /\ ~(PY(lm, 4) > PY(lm, 9))

thumbUp(lm) == PY(lm, 4) < PY(lm, 5)

thumbDown(lm) == PY(lm, 4) > PY(lm, 9)

Opinion(name, confidence) == [name |-> name, confidence |-> confidence]

B2N(b) == IF b THEN 1 ELSE 0

\* the chain of pattern tests of classify, for the finger states fs and
\* the squared scale sc2 it computes first; a test whose inner condition
\* fails returns nothing and falls through to the next one
ClassifyPatterns(lm, fs, sc2) ==
    LET extCount == B2N(fs.thumb) + B2N(fs.index) + B2N(fs.middle)
                    + B2N(fs.ring) + B2N(fs.pinky)
        thumbOnly == fs.thumb /\ ~fs.index /\ ~fs.middle /\ ~fs.ring /\ ~fs.pinky
        thumbIndex == fs.thumb /\ fs.index /\ ~fs.middle /\ ~fs.ring /\ ~fs.pinky
        thumbIndexPinky == fs.thumb /\ fs.index /\ ~fs.middle /\ ~fs.ring /\ fs.pinky
        thumbPinky == fs.thumb /\ ~fs.index /\ ~fs.middle /\ ~fs.ring /\ fs.pinky
        isHoriz == 10 * Abs(PX(lm, 20) - PX(lm, 17)) > 14 * Abs(PY(lm, 20) - PY(lm, 17))
        idxUp == PY(lm, 8) - PY(lm, 5) < -5
        spread5 == GA_dist2(lm, 8, 20)
        thumbToMid == GA_dist2(lm, 4, 12)
        spread2 == GA_dist2(lm, 8, 12)
        pinch == GA_dist2(lm, 4, 8)
        thumbVecY == PY(lm, 4) - PY(lm, 3)
    IN  IF thumbOnly /\ thumbUp(lm) THEN Opinion("THUMBS UP", 9500)
        ELSE IF thumbOnly /\ thumbDown(lm) THEN Opinion("THUMBS DOWN", 9500)
        ELSE IF thumbIndex /\ GA_angleOver58(lm, 4, 2, 5) THEN Opinion("L", 9000)
        ELSE IF thumbIndexPinky THEN Opinion("I LOVE YOU", 9200)
        ELSE IF thumbPinky THEN Opinion("Y", 8800)
        ELSE IF thumbPinky /\ isHoriz THEN Opinion("CALL ME", 8500)
        ELSE IF extCount = 5 /\ idxUp /\ RatioOver(spread5, sc2, 120)
             THEN Opinion("STOP", 8500)
        ELSE IF extCount = 5 /\ idxUp /\ ~RatioOver(spread5, sc2, 120)
             THEN Opinion("HELLO", 8000)
        ELSE IF fs.index /\ ~fs.middle /\ ~fs.ring /\ ~fs.pinky
             THEN Opinion("D", IF RatioUnder(thumbToMid, sc2, 60) THEN 8400 ELSE 7200)
        ELSE IF ~fs.thumb /\ fs.index /\ fs.middle /\ fs.ring /\ ~fs.pinky
             THEN Opinion("W", 8600)
        ELSE IF ~fs.thumb /\ fs.index /\ fs.middle /\ ~fs.ring /\ ~fs.pinky
             THEN IF RatioOver(spread2, sc2, 70) THEN Opinion("V", 8800)
                  ELSE Opinion("U", 8400)
        ELSE IF extCount = 3 /\ fs.middle /\ fs.ring /\ fs.pinky
                /\ RatioUnder(pinch, sc2, 40)
             THEN Opinion("OK", 8600)
        ELSE IF extCount = 0 /\ thumbVecY < -5 THEN Opinion("EAT", 7000)
        ELSE Null

GA_classify(lm) ==
    IF Malformed(lm) THEN Null
    ELSE ClassifyPatterns(lm, GA_fingerStates(lm), GA_handScale2(lm))


\* ------------------------------------------------------------------------
\* ConflictResolver
\* ------------------------------------------------------------------------
Resolution(name, score) == [name |-> name, score |-> score]

\* geo.confidence * 10: a confidence as a score
ConfToScore(c) == (c * 10 * SCORE_ONE) \div CONF_ONE

\* the boost without its cap
BoostScore_uncapped(score) == (score * 112) \div 100

\* Math.min(10, top.score * 1.12); exact for the scores used here, which
\* are multiples of 0.025
BoostScore(score) == Min(10 * SCORE_ONE, (score * 112) \div 100)

\* geo && geo.name === top.name && geo.confidence > 0.80
Boosts(geo, top) == geo # Null /\ geo.name = top.name /\ geo.confidence > 8000

\* the override at the boost's threshold
Overrides_low(geo, top) == geo # Null /\ geo.confidence > 8000 /\ geo.name # top.name

\* geo && geo.confidence > 0.87 && geo.name !== top.name
Overrides(geo, top) == geo # Null /\ geo.confidence > 8700 /\ geo.name # top.name

CR_AvsS(top, lm) ==
    LET thumbOverFingers == PY(lm, 4) > PY(lm, 6)
    IN  Resolution(IF thumbOverFingers THEN "S" ELSE "A", top.score)

\* !fs.index && !fs.middle && !fs.ring && !fs.pinky
AllCurled(fs) == ~fs.index /\ ~fs.middle /\ ~fs.ring /\ ~fs.pinky

\* the M / N / S / T rule without its last return
CR_MNST_noFallthrough(top, lm) ==
    LET allCurled == AllCurled(GA_fingerStates(lm))
        thumbAcross == Abs(PX(lm, 4) - PX(lm, 9)) < 13
        fingersOver == B2N(PY(lm, 8) > PY(lm, 4)) + B2N(PY(lm, 12) > PY(lm, 4))
                       + B2N(PY(lm, 16) > PY(lm, 4))
    IN  IF allCurled
        THEN IF PY(lm, 4) < PY(lm, 5) /\ ~thumbAcross THEN Resolution("T", top.score)
             ELSE IF thumbAcross THEN Resolution("S", top.score)
             ELSE Resolution(IF fingersOver >= 3 THEN "M" ELSE "N", top.score)
        ELSE Null

CR_MNST(top, lm) ==
    LET allCurled == AllCurled(GA_fingerStates(lm))
        thumbAcross == Abs(PX(lm, 4) - PX(lm, 9)) < 13
        fingersOver == B2N(PY(lm, 8) > PY(lm, 4)) + B2N(PY(lm, 12) > PY(lm, 4))
                       + B2N(PY(lm, 16) > PY(lm, 4))
    IN  IF allCurled
        THEN IF PY(lm, 4) < PY(lm, 5) /\ ~thumbAcross THEN Resolution("T", top.score)
             ELSE IF thumbAcross THEN Resolution("S", top.score)
             ELSE Resolution(IF fingersOver >= 3 THEN "M" ELSE "N", top.score)
        ELSE Resolution(top.name, top.score)

CR_UvsR(top, lm) ==
    LET idxLean == PX(lm, 8) - PX(lm, 5)
        midLean == PX(lm, 12) - PX(lm, 9)
        crossed == Sign(idxLean) # Sign(midLean)
    IN  Resolution(IF crossed THEN "R" ELSE "U", top.score)

CR_VvsPeace(top, lm) ==
    Resolution(IF RatioOver(GA_dist2(lm, 4, 0), GA_handScale2(lm), 118)
               THEN "PEACE" ELSE "V", top.score)

CR_FvsOK(top, lm) ==
    Resolution(IF RatioUnder(GA_dist2(lm, 4, 8), GA_handScale2(lm), 36)
               THEN "OK" ELSE "F", top.score)

CR_GoodVsThanks(top, lm) ==
    LET midVecX == PX(lm, 12) - PX(lm, 9)
    IN  Resolution(IF midVecX > 8 THEN "THANKS" ELSE "GOOD", top.score)

CR_BadPleaseWait(top, lm) ==
    LET midVecY == PY(lm, 12) - PY(lm, 9)
    IN  IF midVecY > 6 THEN Resolution("BAD", top.score)
        ELSE Resolution(IF top.name = "WAIT" THEN "WAIT" ELSE "PLEASE", top.score)

\* the C / O / EAT / HOT rule keeping the bank's name where it answers C
CR_COEatHot_keepTop(top, lm) ==
    LET tipSpread == GA_dist2(lm, 8, 4)
        midVecY == PY(lm, 12) - PY(lm, 9)
    IN  IF RatioUnder(tipSpread, GA_handScale2(lm), 28) THEN Resolution("O", top.score)
        ELSE IF midVecY < -6 THEN Resolution("EAT", top.score)
        ELSE IF midVecY > 8 THEN Resolution("HOT", top.score)
        ELSE Resolution(top.name, top.score)

CR_COEatHot(top, lm) ==
    LET tipSpread == GA_dist2(lm, 8, 4)
        midVecY == PY(lm, 12) - PY(lm, 9)
    IN  IF RatioUnder(tipSpread, GA_handScale2(lm), 28) THEN Resolution("O", top.score)
        ELSE IF midVecY < -6 THEN Resolution("EAT", top.score)
        ELSE IF midVecY > 8 THEN Resolution("HOT", top.score)
        ELSE Resolution("C", top.score)

CR_CallMeVsY(top, lm) ==
    LET isHoriz == 10 * Abs(PX(lm, 20) - PX(lm, 17)) > 13 * Abs(PY(lm, 20) - PY(lm, 17))
    IN  Resolution(IF isHoriz THEN "CALL ME" ELSE "Y", top.score)

\* the SLOW / HELLO rule substituting a literal score
CR_SlowVsHello_literal(top, lm) ==
    Resolution(IF RatioUnder(GA_dist2(lm, 8, 20), GA_handScale2(lm), 90)
               THEN "SLOW" ELSE "HELLO", 8000)

CR_SlowVsHello(top, lm) ==
    Resolution(IF RatioUnder(GA_dist2(lm, 8, 20), GA_handScale2(lm), 90)
               THEN "SLOW" ELSE "HELLO", top.score)

\* the names handled by a disambiguation rule
ClusterNames ==
    {"A", "S", "M", "N", "T", "U", "R", "V", "PEACE", "F", "OK", "GOOD",
     "THANKS", "BAD", "PLEASE", "WAIT", "C", "O", "EAT", "HOT", "DRINK",
     "CALL ME", "Y", "SLOW", "HELLO"}

\* the rules after the boost and the override, in source order
Disambiguate(top, lm) ==
    IF top.name \in {"A", "S"} THEN CR_AvsS(top, lm)
    ELSE IF top.name \in {"M", "N", "S", "T"} THEN CR_MNST(top, lm)
    ELSE IF top.name \in {"U", "R"} THEN CR_UvsR(top, lm)
    ELSE IF top.name \in {"V", "PEACE"} THEN CR_VvsPeace(top, lm)
    ELSE IF top.name \in {"F", "OK"} THEN CR_FvsOK(top, lm)
    ELSE IF top.name \in {"GOOD", "THANKS"} THEN CR_GoodVsThanks(top, lm)
    ELSE IF top.name \in {"BAD", "PLEASE", "WAIT"} THEN CR_BadPleaseWait(top, lm)
    ELSE IF top.name \in {"C", "O", "EAT", "HOT", "DRINK"} THEN CR_COEatHot(top, lm)
    ELSE IF top.name \in {"CALL ME", "Y"} THEN CR_CallMeVsY(top, lm)
    ELSE IF top.name \in {"SLOW", "HELLO"} THEN CR_SlowVsHello(top, lm)
    ELSE Resolution(top.name, top.score)

\* the rules of resolve in source order, for the top candidate and the
\* geometric opinion it computes first
ResolveRules(top, geo, lm) ==
    IF Boosts(geo, top)
    THEN Resolution(top.name, BoostScore(top.score))
    ELSE IF Overrides(geo, top)
         THEN Resolution(geo.name, ConfToScore(geo.confidence))
         ELSE Disambiguate(top, lm)

CR_resolve(candidates, lm) ==
    IF Len(candidates) = 0 THEN Null
    ELSE IF Malformed(lm) THEN Null
    ELSE ResolveRules(candidates[1], GA_classify(lm), lm)

\* classify and resolve called directly, on the arguments op holds
Classify ==
    /\ op.fn = "args"
    /\ op' = [fn |-> "classify", candidates |-> op.candidates, hand |-> op.hand]
    /\ ret' = GA_classify(HandOf(op.hand))
    /\ UNCHANGED <<history, stats, estimator, ready, log, calls, host,
                 calibration>>

ResolveCandidates ==
    /\ op.fn = "args"
    /\ op' = [fn |-> "resolve", candidates |-> op.candidates, hand |-> op.hand]
    /\ ret' = CR_resolve(op.candidates, HandOf(op.hand))
    /\ UNCHANGED <<history, stats, estimator, ready, log, calls, host,
                 calibration>>

\* classify answering with the sign the window holds, when it holds one
ClassifyHand_windowed(hand) ==
    /\ op' = [fn |-> "classify", candidates |-> << >>, hand |-> hand]
    /\ ret' = IF TS_best(history) # Null
              THEN Opinion(TS_best(history).name, 9000)
              ELSE GA_classify(HandOf(hand))
    /\ UNCHANGED <<history, stats, estimator, ready, log, calls, host,
                 calibration>>

\* classify called by a host at any time, between calls of the engine
ClassifyHand(hand) ==
    /\ op' = [fn |-> "classify", candidates |-> << >>, hand |-> hand]
    /\ ret' = GA_classify(HandOf(hand))
    /\ UNCHANGED <<history, stats, estimator, ready, log, calls, host,
                 calibration>>


\* ------------------------------------------------------------------------
\* GestureEngine
\* ------------------------------------------------------------------------
\* A frame handed to detect:
\*   hand   the id of the landmarks array, "absent" for null
\*   est    what estimator.estimate does with it: threw, or the gestures of
\*          its result (none when no gesture reaches the threshold)
\* buildGestureEstimator(): the bank, null (fp not loaded) or an exception
BuildOutcomes == {"bank", "null", "throws"}

\* the value standing for an exception that reaches the caller
Thrown == [threw |-> TRUE]

Gesture(name, score) == [name |-> name, score |-> score]

Threw == [threw |-> TRUE, gestures |-> << >>]

Gestures(gs) == [threw |-> FALSE, gestures |-> gs]

\* insertion of g after every element whose score is not lower: the order
\* a stable sort by (a, b) => b.score - a.score produces
RECURSIVE InsertDesc(_, _)
InsertDesc(sorted, g) ==
    IF sorted = << >> THEN <<g>>
    ELSE IF Head(sorted).score >= g.score
         THEN <<Head(sorted)>> \o InsertDesc(Tail(sorted), g)
         ELSE <<g>> \o sorted

RECURSIVE SortDesc(_)
SortDesc(gs) ==
    IF gs = << >> THEN << >>
    ELSE InsertDesc(SortDesc(SubSeq(gs, 1, Len(gs) - 1)), gs[Len(gs)])

\* .slice(0, 4)
Slice4(s) == SubSeq(s, 1, Min(4, Len(s)))

\* fpResult stays null when estimate throws; candidates is then empty
Candidates(est) ==
    IF est.threw THEN << >> ELSE Slice4(SortDesc(est.gestures))

\* step 3 of detect: the geometric opinion as a result
GeoResult(geo) ==
    IF geo # Null THEN Resolution(geo.name, ConfToScore(geo.confidence))
    ELSE Null

\* the resolver's result, else the geometric opinion
Fallback(resolved, landmarks) ==
    IF resolved # Null THEN resolved ELSE GeoResult(GA_classify(landmarks))

\* steps 2 and 3 of detect
FinalResult(candidates, landmarks) ==
    Fallback(CR_resolve(candidates, landmarks), landmarks)

\* adjustedScore / 10: a score as a confidence
ScoreToConf(s) == (s * CONF_ONE) \div (10 * SCORE_ONE)

\* the clamp without its upper limit
RawConf_noCeiling(adjustedScore) == Max(0, ScoreToConf(adjustedScore))

\* Math.min(1.0, Math.max(0, adjustedScore / 10))
RawConf(adjustedScore) == Min(CONF_ONE, Max(0, ScoreToConf(adjustedScore)))

\* the confidence scaled to thousandths instead of hundredths
Percent_permille(num, den) == (2000 * num + den * CONF_ONE) \div (2 * den * CONF_ONE)

\* Math.round(smoothed.confidence * 100), for the confidence num / den
Percent(num, den) == (200 * num + den * CONF_ONE) \div (2 * den * CONF_ONE)


\* init leaving isReady as it was when construction throws
EngineInit_keepReady(outcome) ==
    /\ estimator' = IF outcome = "throws" THEN estimator ELSE outcome
    /\ ready' = IF outcome = "throws" THEN ready ELSE (outcome = "bank")
    /\ op' = [fn |-> "init", outcome |-> outcome]
    /\ ret' = [ok |-> ready']
    /\ UNCHANGED <<history, stats, log, calls, host,
                 calibration>>

EngineInit(outcome) ==
    /\ estimator' = IF outcome = "throws" THEN estimator ELSE outcome
    /\ ready' = (outcome = "bank")
    /\ op' = [fn |-> "init", outcome |-> outcome]
    /\ ret' = [ok |-> ready']
    /\ UNCHANGED <<history, stats, log, calls, host,
                 calibration>>


\* a total miss that leaves the window alone
DetectMiss_keepWindow ==
    /\ ret' = Null
    /\ UNCHANGED <<history, log>>

\* detect when neither layer names the hand
DetectMiss ==
    /\ history' = TS_reset
    /\ log' = << >>
    /\ ret' = Null

\* steps 4 and 5 of detect
DetectHit(finalResult) ==
    LET adjustedScore == OL_adjust(stats, finalResult.name, finalResult.score)
        rawConf == RawConf(adjustedScore)
        h1 == TS_push(history, finalResult.name, rawConf)
        smoothed == TS_best(h1)
    IN  /\ history' = h1
        /\ log' = Append(log, [name |-> finalResult.name, confidence |-> rawConf])
        /\ ret' = IF smoothed = Null THEN Null
                  ELSE [name |-> smoothed.name,
                        confidence |-> Percent(smoothed.num, smoothed.den)]

\* the end of detect, for the result of steps 2 and 3
DetectFinal(finalResult) ==
    IF finalResult = Null THEN DetectMiss ELSE DetectHit(finalResult)

\* the record of a detect call: its frame, the window length before it and
\* whether it reached estimator.estimate
DetectOp(frame) ==
    [fn |-> "detect", frame |-> frame, win |-> Len(history),
     estimated |-> ready /\ ~Malformed(HandOf(frame.hand))]


\* detect emptying the window when it rejects its input
Detect_rejectClears(frame) ==
    LET landmarks == HandOf(frame.hand)
    IN  /\ op' = DetectOp(frame)
        /\ IF ~ready \/ Malformed(landmarks)
           THEN /\ ret' = Null
                /\ history' = TS_reset
                /\ log' = << >>
           ELSE DetectFinal(FinalResult(Candidates(frame.est), landmarks))
        /\ UNCHANGED <<stats, estimator, ready, calls, host,
                 calibration>>

\* detect without the try / catch around estimator.estimate
Detect_noCatch(frame) ==
    LET landmarks == HandOf(frame.hand)
    IN  /\ op' = DetectOp(frame)
        /\ IF ~ready \/ Malformed(landmarks)
           THEN /\ ret' = Null
                /\ UNCHANGED <<history, log>>
           ELSE IF frame.est.threw
                THEN /\ ret' = Thrown
                     /\ UNCHANGED <<history, log>>
                ELSE DetectFinal(FinalResult(Candidates(frame.est), landmarks))
        /\ UNCHANGED <<stats, estimator, ready, calls, host,
                 calibration>>

Detect(frame) ==
    LET landmarks == HandOf(frame.hand)
    IN  /\ op' = DetectOp(frame)
        /\ IF ~ready \/ Malformed(landmarks)
           THEN /\ ret' = Null
                /\ UNCHANGED <<history, log>>
           ELSE DetectFinal(FinalResult(Candidates(frame.est), landmarks))
        /\ UNCHANGED <<stats, estimator, ready, calls, host,
                 calibration>>

ConfirmSign(name, rawFpScore) ==
    /\ stats' = OL_observe(stats, name, rawFpScore)
    /\ calls' = [calls EXCEPT ![name] = @ + 1]
    /\ op' = [fn |-> "confirmSign", name |-> name, score |-> rawFpScore]
    /\ ret' = Null
    /\ UNCHANGED <<history, log, estimator, ready, host, calibration>>

\* the record of a window reset: the window length before it and whether
\* best() named a sign before it
ResetOp(fn) == [fn |-> fn, win |-> Len(history), best |-> TS_best(history) # Null]

\* reset leaving the window alone
Reset_keepWindow ==
    /\ op' = ResetOp("reset")
    /\ ret' = Null
    /\ UNCHANGED <<history, log, stats, estimator, ready, calls, host,
                 calibration>>

\* reset clearing the learner with the window
Reset_clearsLearner ==
    /\ history' = TS_reset
    /\ log' = << >>
    /\ stats' = OL_reset
    /\ op' = ResetOp("reset")
    /\ ret' = Null
    /\ UNCHANGED <<estimator, ready, calls, host,
                 calibration>>

Reset ==
    /\ history' = TS_reset
    /\ log' = << >>
    /\ op' = ResetOp("reset")
    /\ ret' = Null
    /\ UNCHANGED <<stats, estimator, ready, calls, host,
                 calibration>>


\* the record of a session reset: as for reset, with the number of signs
\* the learner knew and whether one had reached MIN_CONFIRM
ResetSessionOp ==
    [fn |-> "resetSession", win |-> Len(history),
     best |-> TS_best(history) # Null,
     names |-> Cardinality(DOMAIN stats),
     learned |-> \E n \in DOMAIN stats : stats[n].count >= MIN_CONFIRM]

\* ResetSession clearing the window only
ResetSession_keepLearner ==
    /\ history' = TS_reset
    /\ log' = << >>
    /\ calls' = [n \in Names |-> 0]
    /\ op' = ResetSessionOp
    /\ ret' = Null
    /\ UNCHANGED <<stats, estimator, ready, host, calibration>>

ResetSession ==
    /\ history' = TS_reset
    /\ log' = << >>
    /\ stats' = OL_reset
    /\ calls' = [n \in Names |-> 0]
    /\ op' = ResetSessionOp
    /\ ret' = Null
    /\ UNCHANGED <<estimator, ready, host, calibration>>

DebugDump ==
    /\ op' = [fn |-> "debugDump"]
    /\ ret' = [learner |-> OL_dump(stats)]
    /\ UNCHANGED <<history, stats, estimator, ready, log, calls, host,
                 calibration>>

\* a dump made as a shallow copy: every entry is the object stats holds
OL_dumpShared_shallow(st) == DOMAIN st

\* The names whose {ema, count} object in the dump is the very object stats
\* holds. JSON.stringify writes stats out as text and JSON.parse builds
\* every object of the result anew, so the dump shares none.
OL_dumpShared(st) == {}

\* the values a host writes into an entry of a snapshot
TamperedEntry == [ema |-> 0, count |-> 99]

\* The host changes or deletes entry name of the object debugDump returned
\* to it, before any other call of the engine. A write to an entry reaches
\* stats when the entry is an object stats holds; a delete removes a key of
\* the returned object only.
Tamper(name, kind) ==
    /\ op.fn \in {"debugDump", "tamper"}
    /\ name \in DOMAIN ret.learner
    /\ ret' = [learner |->
                 IF kind = "delete"
                 THEN [n \in DOMAIN ret.learner \ {name} |-> ret.learner[n]]
                 ELSE [ret.learner EXCEPT ![name] = TamperedEntry]]
    /\ stats' = IF kind = "change" /\ name \in OL_dumpShared(stats)
                THEN [stats EXCEPT ![name] = TamperedEntry]
                ELSE stats
    /\ op' = [fn |-> "tamper", name |-> name, kind |-> kind]
    /\ UNCHANGED <<history, estimator, ready, log, calls, host,
                 calibration>>


\* ------------------------------------------------------------------------
\* The host page (src/app.js)
\* ------------------------------------------------------------------------
\* Every callback reads the clock once; the clock never runs backwards.

\* the cooldown guard of onSignConfirmed
CooldownBlocks(signName, now) ==
    /\ signName = host.lastConfirmedSign
    /\ now - host.lastConfirmedTime < addCooldownMs

\* onSignConfirmed notifying the learner of manual confirmations too
Notifies_manualToo(signName, now, isManual) == ~CooldownBlocks(signName, now)

\* whether onSignConfirmed(signName, _, isManual) calls
\* GestureEngine.confirmSign (GestureEngine is always defined on the page)
Notifies(signName, now, isManual) ==
    ~CooldownBlocks(signName, now) /\ ~isManual

\* the AppState onSignConfirmed leaves, from the AppState h of its caller
Confirmed(h, signName, now) ==
    IF CooldownBlocks(signName, now) THEN h
    ELSE [h EXCEPT !.lastConfirmedSign = signName, !.lastConfirmedTime = now]

\* onSignConfirmed(signName, _, isManual) on the learner, where score is
\* AppState.lastRawFpScore at the call
NotifyLearner(signName, now, isManual, score) ==
    IF Notifies(signName, now, isManual)
    THEN /\ stats' = OL_observe(stats, signName, score)
         /\ calls' = [calls EXCEPT ![signName] = @ + 1]
    ELSE UNCHANGED <<stats, calls>>

\* the clock advanced and the callback counted
Clocked(h, now) == [h EXCEPT !.now = now, !.events = @ + 1]

\* result.confidence / 10, in thousandths of a score
PercentToScore(confidence) == (confidence * SCORE_ONE) \div 10

\* whether runDetection, given result, finds the debounce complete
HeldLongEnough(result, now) ==
    /\ result.name = host.pendingSign
    /\ now - host.pendingSignTime >= debounceMs

\* a none result that leaves the pending sign in place
HostMiss_keepPending(now) ==
    /\ host' = [Clocked(host, now) EXCEPT !.lastDetectionTs = now]
    /\ UNCHANGED <<stats, calls>>

\* runDetection after GestureEngine.detect returned none
HostMiss(now) ==
    /\ host' = [Clocked(host, now) EXCEPT !.lastDetectionTs = now,
                                          !.pendingSign = ""]
    /\ UNCHANGED <<stats, calls>>

\* runDetection after GestureEngine.detect returned result
HostHit(result, now) ==
    IF HeldLongEnough(result, now)
    THEN /\ host' = [Confirmed(Clocked(host, now), result.name, now)
                        EXCEPT !.lastDetectionTs = now,
                               !.lastRawFpScore = PercentToScore(result.confidence),
                               !.pendingSign = "",
                               !.pendingSignTime = 0]
         /\ NotifyLearner(result.name, now, FALSE,
                          PercentToScore(result.confidence))
    ELSE /\ host' = [Clocked(host, now)
                        EXCEPT !.lastDetectionTs = now,
                               !.lastRawFpScore = PercentToScore(result.confidence),
                               !.pendingSign = result.name,
                               !.pendingSignTime =
                                   IF result.name = host.pendingSign
                                   THEN @ ELSE now]
         /\ UNCHANGED <<stats, calls>>

\* the record of a runDetection call: its frame, the clock, whether the
\* frame was processed, whether onSignConfirmed was called and whether that
\* call reached confirmSign
RunDetectionOp(frame, now, result) ==
    [fn |-> "runDetection", frame |-> frame, now |-> now,
     throttled |-> FALSE,
     confirmed |-> result # Null /\ HeldLongEnough(result, now),
     notified |-> /\ result # Null
                  /\ HeldLongEnough(result, now)
                  /\ Notifies(result.name, now, FALSE)]

\* runDetection(landmarks), dt after the previous callback
RunDetection(frame, dt) ==
    IF (host.now + dt) - host.lastDetectionTs < DETECTION_INTERVAL
    THEN /\ host' = Clocked(host, host.now + dt)
         /\ op' = [fn |-> "runDetection", frame |-> frame,
                   now |-> host.now + dt, throttled |-> TRUE,
                   confirmed |-> FALSE, notified |-> FALSE]
         /\ UNCHANGED <<history, stats, estimator, ready, log, calls, ret,
                       calibration>>
    ELSE /\ IF ~ready \/ Malformed(HandOf(frame.hand))
            THEN /\ ret' = Null
                 /\ UNCHANGED <<history, log>>
            ELSE DetectFinal(FinalResult(Candidates(frame.est),
                                         HandOf(frame.hand)))
         /\ IF ret' = Null THEN HostMiss(host.now + dt)
                           ELSE HostHit(ret', host.now + dt)
         /\ op' = RunDetectionOp(frame, host.now + dt, ret')
         /\ UNCHANGED <<estimator, ready, calibration>>

\* onResults(results) without a hand: the pending sign is dropped and the
\* window cleared
HandLost(dt) ==
    /\ host' = [Clocked(host, host.now + dt) EXCEPT !.pendingSign = ""]
    /\ history' = TS_reset
    /\ log' = << >>
    /\ op' = [fn |-> "onResults", now |-> host.now + dt]
    /\ ret' = Null
    /\ UNCHANGED <<stats, estimator, ready, calls, calibration>>

\* a click on the guide card of sign: onSignConfirmed(sign, conf, true)
GuideClick(sign, dt) ==
    /\ host' = Confirmed(Clocked(host, host.now + dt), sign, host.now + dt)
    /\ NotifyLearner(sign, host.now + dt, TRUE, host.lastRawFpScore)
    /\ op' = [fn |-> "guideClick", sign |-> sign, now |-> host.now + dt,
              blocked |-> CooldownBlocks(sign, host.now + dt)]
    /\ UNCHANGED <<history, estimator, ready, log, ret, calibration>>


\* ------------------------------------------------------------------------
\* Calibration (js/calibration.js)
\* ------------------------------------------------------------------------
\* the signs of CALIB_SEQUENCE, in order
CALIB_SEQUENCE ==
    <<"A", "B", "L", "THUMBS UP", "PEACE", "I LOVE YOU", "HELLO", "STOP",
      "OK", "Y">>

SAMPLES_NEEDED == 15

\* what a localStorage call does: it succeeds or it throws
StorageOutcomes == {"ok", "throws"}

\* load(): data becomes the stored item when there is one, and the empty
\* object when reading throws
Cal_load(c, io) ==
    IF io = "throws" THEN [c EXCEPT !.data = << >>]
    ELSE IF c.storage.present THEN [c EXCEPT !.data = c.storage.item]
    ELSE c

\* save(): the item becomes a copy of data unless writing throws
Cal_save(c, io) ==
    IF io = "throws" THEN c
    ELSE [c EXCEPT !.storage = [present |-> TRUE, item |-> c.data]]

\* CALIB_SEQUENCE[stepIndex] is undefined, so that reading its .sign throws
PastEnd(stepIndex) == stepIndex + 1 \notin DOMAIN CALIB_SEQUENCE

\* CALIB_SEQUENCE[stepIndex].sign
Expected(stepIndex) == CALIB_SEQUENCE[stepIndex + 1]

\* the sample test accepting a score of exactly 5
Accepts_fiveToo(detectedName, rawScore, expected) ==
    detectedName = expected /\ rawScore >= 5 * SCORE_ONE

\* detectedName === expected && rawScore > 5
Accepts(detectedName, rawScore, expected) ==
    detectedName = expected /\ rawScore > 5 * SCORE_ONE

RECURSIVE SeqSum(_)
SeqSum(buf) == IF buf = << >> THEN 0 ELSE Head(buf) + SeqSum(Tail(buf))

\* sampleBuf.reduce((a, b) => a + b, 0) / sampleBuf.length, in thousandths
Cal_avg(buf) == SeqSum(buf) \div Len(buf)

\* Math.max(-1.5, Math.min(1.5, 8.5 - avg))
Cal_bonus(avg) ==
    Max(0 - (3 * SCORE_ONE) \div 2,
        Min((3 * SCORE_ONE) \div 2, (17 * SCORE_ONE) \div 2 - avg))

\* whether the step _commitStep is about to close is the last one
LastStep(c) == c.stepIndex + 1 >= Len(CALIB_SEQUENCE)

\* _commitStep(): the step's entry is written, the buffer emptied and the
\* step advanced; after the last step the wizard stops and saves
Cal_commitStep(c, io) ==
    LET sign == CALIB_SEQUENCE[c.stepIndex + 1]
        avg == Cal_avg(c.sampleBuf)
        entry == [bonus |-> Cal_bonus(avg), avg |-> avg,
                  samples |-> Len(c.sampleBuf)]
        c1 == [c EXCEPT !.data = [k \in DOMAIN c.data \cup {sign} |->
                                     IF k = sign THEN entry ELSE c.data[k]],
                        !.sampleBuf = << >>,
                        !.stepIndex = @ + 1]
    IN  IF LastStep(c)
        THEN Cal_save([c1 EXCEPT !.isRunning = FALSE], io)
        ELSE c1

\* the record of a call that is not feedSample
CalOp(fn) ==
    [fn |-> fn, wasRunning |-> calibration.isRunning]

\* startCalibration(updateCb, completeCb)
StartCalibration(updateCb, completeCb, io) ==
    /\ calibration' =
          IF calibration.isRunning THEN calibration
          ELSE [Cal_load(calibration, io)
                   EXCEPT !.isRunning = TRUE, !.stepIndex = 0,
                          !.sampleBuf = << >>,
                          !.onComplete = completeCb]
    /\ op' = CalOp("startCalibration")
    /\ ret' = Null
    /\ UNCHANGED <<history, stats, estimator, ready, log, calls, host>>

\* stopCalibration()
StopCalibration ==
    /\ calibration' = [calibration EXCEPT !.isRunning = FALSE,
                                          !.stepIndex = 0,
                                          !.sampleBuf = << >>]
    /\ op' = CalOp("stopCalibration")
    /\ ret' = Null
    /\ UNCHANGED <<history, stats, estimator, ready, log, calls, host>>

\* the record of a feedSample call: whether detectedName was the sign the
\* running wizard expected, rawScore, whether the wizard was running, the
\* step index it read the expected sign at (-1 when it read none), whether
\* the sample was pushed, whether the step was committed, whether save()
\* ran and the times onComplete was called
FeedOp(detectedName, rawScore, c, pushed) ==
    LET commits == pushed /\ Len(c.sampleBuf) + 1 >= SAMPLES_NEEDED
    IN  [fn |-> "feedSample",
         matches |-> /\ c.isRunning
                     /\ ~PastEnd(c.stepIndex)
                     /\ detectedName = CALIB_SEQUENCE[c.stepIndex + 1],
         score |-> rawScore,
         wasRunning |-> c.isRunning,
         read |-> IF c.isRunning THEN c.stepIndex ELSE 0 - 1,
         pushed |-> pushed,
         committed |-> commits,
         saved |-> commits /\ LastStep(c),
         completions |-> IF commits /\ LastStep(c) /\ c.onComplete
                         THEN 1 ELSE 0]

\* feedSample(detectedName, rawScore)
FeedSample(detectedName, rawScore, io) ==
    LET c == calibration
    IN  /\ IF ~c.isRunning
           THEN /\ calibration' = c
                /\ op' = FeedOp(detectedName, rawScore, c, FALSE)
                /\ ret' = Null
           ELSE IF PastEnd(c.stepIndex)
           THEN /\ calibration' = c
                /\ op' = FeedOp(detectedName, rawScore, c, FALSE)
                /\ ret' = Thrown
           ELSE IF Accepts(detectedName, rawScore, Expected(c.stepIndex))
           THEN LET c1 == [c EXCEPT !.sampleBuf = Append(@, rawScore)]
                IN  /\ calibration' =
                          IF Len(c1.sampleBuf) >= SAMPLES_NEEDED
                          THEN Cal_commitStep(c1, io)
                          ELSE c1
                    /\ op' = FeedOp(detectedName, rawScore, c, TRUE)
                    /\ ret' = Null
           ELSE /\ calibration' = c
                /\ op' = FeedOp(detectedName, rawScore, c, FALSE)
                /\ ret' = Null
        /\ UNCHANGED <<history, stats, estimator, ready, log, calls, host>>

\* Calibration.reset(): data emptied and the item removed unless removing
\* throws
CalibrationReset(io) ==
    /\ calibration' = [calibration EXCEPT
                          !.data = << >>,
                          !.storage = IF io = "throws" THEN @ ELSE NoItem]
    /\ op' = CalOp("calibrationReset")
    /\ ret' = Null
    /\ UNCHANGED <<history, stats, estimator, ready, log, calls, host>>


\* ------------------------------------------------------------------------
\* OnlineLearner.observe in IEEE-754 double arithmetic
\* ------------------------------------------------------------------------
\* A positive double is n * 2^e with 2^52 <= n < 2^53.  n is held as its
\* digits in base 2^12, lowest first.  Products and sums are formed exactly
\* and rounded to 53 bits, to nearest and on a tie to even, as the hardware
\* does.
LimbBase == 2^12

Limb(x, i) == IF i >= 1 /\ i <= Len(x) THEN x[i] ELSE 0

\* bit p of x, the lowest being bit 0
BitOf(x, p) == (Limb(x, (p \div 12) + 1) \div 2^(p % 12)) % 2

\* the number of bits of x: the position of its highest 1, plus one
BitLen(x) ==
    LET ones == {p \in 0..(12 * Len(x) - 1) : BitOf(x, p) = 1}
    IN  IF ones = {} THEN 0 ELSE 1 + CHOOSE p \in ones : \A q \in ones : q <= p

\* floor(x / 2^s), on len digits
ShiftRight(x, s, len) ==
    [i \in 1..len |->
        (Limb(x, i + (s \div 12)) \div 2^(s % 12))
      + ((Limb(x, i + (s \div 12) + 1) % 2^(s % 12)) * 2^(12 - (s % 12)))]

\* x * 2^s, on len digits
ShiftLeft(x, s, len) ==
    [i \in 1..len |->
        ((Limb(x, i - (s \div 12)) * 2^(s % 12)) % LimbBase)
      + (Limb(x, i - (s \div 12) - 1) \div 2^(12 - (s % 12)))]

\* whether the digit sums below position i carry into it
CarryInto(x, y, i) ==
    \E j \in 1..(i - 1) :
        /\ Limb(x, j) + Limb(y, j) >= LimbBase
        /\ \A k \in (j + 1)..(i - 1) : Limb(x, k) + Limb(y, k) = LimbBase - 1

\* x + y, on len digits
BigAdd(x, y, len) ==
    [i \in 1..len |->
        (Limb(x, i) + Limb(y, i) + IF CarryInto(x, y, i) THEN 1 ELSE 0)
            % LimbBase]

\* column k of the product of two numbers of five digits: the sum of the
\* digit products x[i] * y[k + 1 - i]
Column(x, y, k) ==
      Limb(x, 1) * Limb(y, k) + Limb(x, 2) * Limb(y, k - 1)
    + Limb(x, 3) * Limb(y, k - 2) + Limb(x, 4) * Limb(y, k - 3)
    + Limb(x, 5) * Limb(y, k - 4)

\* the digits of the product from column k on, with carry c into column k
RECURSIVE Carried(_, _, _, _)
Carried(x, y, k, c) ==
    IF k > 10 THEN << >>
    ELSE <<(Column(x, y, k) + c) % LimbBase>>
            \o Carried(x, y, k + 1, (Column(x, y, k) + c) \div LimbBase)

BigMul(x, y) == Carried(x, y, 1, 0)

Dbl(n, e) == [n |-> n, e |-> e]

\* the s lowest bits of n are dropped: upwards when they are more than half
\* of the last kept place, or exactly half and the kept part is odd
RoundsUp(n, s) ==
    /\ BitOf(n, s - 1) = 1
    /\ \/ \E p \in 0..(s - 2) : BitOf(n, p) = 1
       \/ BitOf(n, s) = 1

\* q * 2^e, where rounding up may have brought q to 2^53
Renorm(q, e) ==
    IF BitOf(q, 53) = 1 THEN Dbl(ShiftRight(q, 1, 5), e + 1) ELSE Dbl(q, e)

DropLow(n, e, s) ==
    Renorm(IF RoundsUp(n, s)
           THEN BigAdd(ShiftRight(n, s, 5), <<1>>, 5)
           ELSE ShiftRight(n, s, 5),
           e + s)

\* n * 2^e rounded to a double, for n of 53 bits or more
Round53(n, e) == DropLow(n, e, BitLen(n) - 53)

DblMul(x, y) == Round53(BigMul(x.n, y.n), x.e + y.e)

\* x + y with both brought to the exponent e, the lower of the two
AddAt(x, y, e) ==
    Round53(BigAdd(ShiftLeft(x.n, x.e - e, 10), ShiftLeft(y.n, y.e - e, 10), 10),
            e)

DblAdd(x, y) == AddAt(x, y, IF x.e < y.e THEN x.e ELSE y.e)

\* a double as JavaScript writes it in hexadecimal, 0x1.hhhhhhhhhhhhhp+x:
\* the 13 digits h after the point, first digit first, and the exponent x
FromHex(h, x) ==
    Dbl(<<256 * h[11] + 16 * h[12] + h[13],
          256 * h[8] + 16 * h[9] + h[10],
          256 * h[5] + 16 * h[6] + h[7],
          256 * h[2] + 16 * h[3] + h[4],
          16 + h[1]>>,
        x - 52)

\* EMA_ALPHA = 0.12 and the value of 1 - EMA_ALPHA
EMA_ALPHA_Double == FromHex(<<14, 11, 8, 5, 1, 14, 11, 8, 5, 1, 14, 11, 8>>, -4)

OneMinusAlpha_Double ==
    FromHex(<<12, 2, 8, 15, 5, 12, 2, 8, 15, 5, 12, 2, 9>>, -1)

\* the doubles of the scores 6.0, 7.7 and 8.5
ScoreDouble(rawScore) ==
    CASE rawScore = 6000 -> FromHex(<<8, 0, 0, 0, 0, 0, 0, 0, 0, 0, 0, 0, 0>>, 2)
      [] rawScore = 7700 ->
             FromHex(<<14, 12, 12, 12, 12, 12, 12, 12, 12, 12, 12, 12, 13>>, 2)
      [] rawScore = 8500 -> FromHex(<<1, 0, 0, 0, 0, 0, 0, 0, 0, 0, 0, 0, 0>>, 3)

\* the update with the old average added whole
EmaStep_Double_noDecay(ema, rawScore) ==
    DblAdd(DblMul(EMA_ALPHA_Double, rawScore), ema)

\* s.ema = EMA_ALPHA * rawScore + (1 - EMA_ALPHA) * s.ema
EmaStep_Double(ema, rawScore) ==
    DblAdd(DblMul(EMA_ALPHA_Double, rawScore), DblMul(OneMinusAlpha_Double, ema))

\* observe(name, rawScore) with the average kept twice: ema in thousandths
\* as everywhere else, and double as the double the code holds
OL_observe_Double(st, name, rawScore) ==
    [k \in DOMAIN st \cup {name} |->
        IF k # name THEN st[k]
        ELSE [ema |-> OL_observe(st, name, rawScore)[name].ema,
              count |-> OL_observe(st, name, rawScore)[name].count,
              double |-> EmaStep_Double(IF name \in DOMAIN st
                                        THEN st[name].double
                                        ELSE ScoreDouble(rawScore),
                                        ScoreDouble(rawScore))]]

ObserveDouble(name, rawScore) ==
    /\ stats' = OL_observe_Double(stats, name, rawScore)
    /\ calls' = [calls EXCEPT ![name] = @ + 1]
    /\ op' = [fn |-> "observe", name |-> name, score |-> rawScore,
              before |-> IF name \in DOMAIN stats THEN stats[name].ema
                         ELSE rawScore]
    /\ ret' = Null
    /\ UNCHANGED <<history, log, estimator, ready, host, calibration>>


\* ------------------------------------------------------------------------
\* Specifications
\* ------------------------------------------------------------------------
Entry(name, confidence) == [name |-> name, confidence |-> confidence]

\* The entries pushed between two resets of the window are drawn from one of
\* two sets: three names, or two names with two confidences for one name.
\* 15000 is a confidence above 1.0, which push accepts.
ThreeNames == {Entry("A", 9000), Entry("S", 4000), Entry("L", 15000)}
TwoConfidences == {Entry("A", 9000), Entry("A", 15000), Entry("S", 4000)}
PushSets == {ThreeNames, TwoConfidences}

\* observe(name, rawScore) inputs: A is scored at or below the target, S at
\* or above it (12.0 is outside the nominal range, which observe accepts)
ObserveInputs ==
    { <<"A", 3000>>, <<"A", 8500>>, <<"S", 12000>>, <<"S", 8500>> }

\* scores given to adjust
AdjustScores == {0, 7000, 10000}

\* frames of the window specification: a fist the bank scores A at 9.0
\* (pushed as confidence 0.9) and one that neither layer can name
WindowFrames ==
    { [hand |-> "fistA", est |-> Gestures(<<Gesture("A", 9000)>>)],
      [hand |-> "fistA", est |-> Gestures(<< >>)] }

\* the smoother called directly
NextSmoother ==
    \/ \E al \in PushSets : \E e \in al :
          /\ Len(log) < MaxPushes
          /\ \A i \in 1..Len(log) : log[i] \in al
          /\ Push(e.name, e.confidence)
    \/ SmootherReset

SpecSmoother == Init /\ [][NextSmoother]_vars

\* the smoother called directly and through the engine
NextWindow ==
    \/ \E e \in ThreeNames : Len(log) < MaxPushes /\ Push(e.name, e.confidence)
    \/ SmootherReset
    \/ EngineInit("bank")
    \/ \E frame \in WindowFrames : Len(log) < MaxPushes /\ Detect(frame)
    \/ Reset
    \/ ResetSession

SpecWindow == Init /\ [][NextWindow]_vars

NextLearner ==
    \/ \E in \in ObserveInputs :
          /\ TotalObs(stats) < MaxObs
          /\ Observe(in[1], in[2])
    \/ LearnerReset

SpecLearner == Init /\ [][NextLearner]_vars

\* frames of the hand-loss specification: the fist scored A at 9.0, a
\* thumbs-up only the geometry names, and a fist neither layer names
ResetFrames ==
    { [hand |-> "fistA", est |-> Gestures(<<Gesture("A", 9000)>>)],
      [hand |-> "thumbsUp", est |-> Gestures(<< >>)],
      [hand |-> "fistA", est |-> Gestures(<< >>)] }

\* detections interleaved with hand losses and session resets
NextReset ==
    \/ \E outcome \in BuildOutcomes : EngineInit(outcome)
    \/ \E frame \in ResetFrames : Len(log) < MaxPushes /\ Detect(frame)
    \/ Reset
    \/ ResetSession

SpecReset == Init /\ [][NextReset]_vars

\* inputs of the resolver specification: every hand of the library and no
\* hand; candidate lists headed by every cluster name, every name the
\* geometry can give and a name neither knows, at three scores
ResolveHands == HandIds \cup {"absent"}

TopNames ==
    ClusterNames \cup {"THUMBS UP", "THUMBS DOWN", "L", "I LOVE YOU", "STOP",
                       "D", "W", "B"}

TopScores == {7000, 8000, 9500}

CandidateLists ==
    { << >> }
    \cup { <<Gesture(n, s)>> : n \in TopNames, s \in TopScores }
    \cup { <<Gesture(n, 8000), Gesture("B", 9500)>> : n \in {"A", "V", "B"} }

\* the state before a direct call: its arguments drawn, nothing else done
InitResolve ==
    /\ history = << >>
    /\ stats = << >>
    /\ estimator = "null"
    /\ ready = FALSE
    /\ log = << >>
    /\ calls = [n \in Names |-> 0]
    /\ op \in [fn : {"args"}, candidates : CandidateLists, hand : ResolveHands]
    /\ ret = Null
    /\ host = HostInit
    /\ calibration = CalibrationInit

NextResolve ==
    \/ Classify
    \/ ResolveCandidates

SpecResolve == InitResolve /\ [][NextResolve]_vars

\* frames of the engine specification
MaxFrames == 3

\* what the estimator does in the engine specification: it throws, finds
\* nothing, or returns gestures in the bank's own order
Estimates ==
    { Threw,
      Gestures(<< >>),
      Gestures(<<Gesture("A", 8000)>>),
      Gestures(<<Gesture("O", 7000), Gesture("S", 8000), Gesture("A", 8000),
                 Gesture("C", 7500), Gesture("E", 7250)>>) }

\* hands of the engine specification: none, one landmark short, one too
\* many, a thumbs-up and a fist the geometry cannot name
FrameHands == {"absent", "short20", "long22", "thumbsUp", "fistA"}

Frames == [hand : FrameHands, est : Estimates]

\* confirmSign(name, rawFpScore) inputs of the engine specification
ConfirmInputs == { <<"A", 6000>>, <<"S", 6000>> }

Next ==
    \/ \E outcome \in BuildOutcomes : EngineInit(outcome)
    \/ \E frame \in Frames : Len(log) < MaxFrames /\ Detect(frame)
    \/ \E in \in ConfirmInputs :
          /\ TotalObs(stats) < MaxObs
          /\ ConfirmSign(in[1], in[2])
    \/ Reset
    \/ ResetSession
    \/ DebugDump

Spec == Init /\ [][Next]_vars

\* the frame of the snapshot specification: a fist the bank scores A at 8.0
DumpFrame == [hand |-> "fistA", est |-> Gestures(<<Gesture("A", 8000)>>)]

\* snapshots taken and tampered with between calls that read and write the
\* learner
NextDump ==
    \/ EngineInit("bank")
    \/ \E in \in ConfirmInputs :
          /\ TotalObs(stats) < MaxObs
          /\ ConfirmSign(in[1], in[2])
    \/ Len(log) < MaxFrames /\ Detect(DumpFrame)
    \/ DebugDump
    \/ \E name \in {"A", "S"}, kind \in {"change", "delete"} : Tamper(name, kind)
    \/ ResetSession

SpecDump == Init /\ [][NextDump]_vars

\* callbacks of the page explored
MaxEvents == 6

\* frames of the page: a fist the bank scores A at 8.0 and an L hand it
\* scores L at 8.0
HostFrames ==
    { [hand |-> "fistA", est |-> Gestures(<<Gesture("A", 8000)>>)],
      [hand |-> "L70", est |-> Gestures(<<Gesture("L", 8000)>>)] }

\* time between two callbacks: less than DETECTION_INTERVAL, at least
\* debounceMs, at least addCooldownMs
Elapsed == {40, 400, 1500}

NextHost ==
    \/ EngineInit("bank")
    \/ \E frame \in HostFrames, dt \in Elapsed :
          host.events < MaxEvents /\ RunDetection(frame, dt)
    \/ \E dt \in Elapsed : host.events < MaxEvents /\ HandLost(dt)
    \/ \E dt \in Elapsed : host.events < MaxEvents /\ GuideClick("A", dt)

SpecHost == Init /\ [][NextHost]_vars

\* the frame of the feedback specification: a fist the bank scores A at 8.0
FeedbackFrame == [hand |-> "fistA", est |-> Gestures(<<Gesture("A", 8000)>>)]

\* the page confirming A on a learner that earlier confirmations, at a raw
\* score of 6.0, have taught or not
NextFeedback ==
    \/ EngineInit("bank")
    \/ TotalObs(stats) < MaxObs /\ ConfirmSign("A", 6000)
    \/ \E dt \in {400, 1500} :
          host.events < MaxEvents /\ RunDetection(FeedbackFrame, dt)
    \/ host.events < MaxEvents /\ HandLost(400)

SpecFeedback == Init /\ [][NextFeedback]_vars

\* frames of the hold specification: those of the page and a fist neither
\* layer names, for which detect returns none
HoldFrames ==
    HostFrames \cup { [hand |-> "fistA", est |-> Gestures(<< >>)] }

\* a sign held, changed and lost: frames below the detection interval
\* apart and above the debounce apart
NextHold ==
    \/ EngineInit("bank")
    \/ \E frame \in HoldFrames, dt \in {40, 400} :
          host.events < MaxEvents /\ RunDetection(frame, dt)
    \/ host.events < MaxEvents /\ HandLost(400)
    \/ host.events < MaxEvents /\ GuideClick("A", 400)

SpecHold == Init /\ [][NextHold]_vars

\* observe calls explored in double arithmetic between two learner resets
MaxDoubleObs == 3

\* scores observed in double arithmetic: tenths, as the page forwards them
DoubleScores == {6000, 7700, 8500}

NextDouble ==
    \/ \E name \in {"A", "S"}, rawScore \in DoubleScores :
          /\ TotalObs(stats) < MaxDoubleObs
          /\ ObserveDouble(name, rawScore)
    \/ LearnerReset

SpecDouble == Init /\ [][NextDouble]_vars

\* inputs of the wizard specification: every sign of the sequence and one
\* outside it; a score of exactly 5 and one above 5
CalibNames == {CALIB_SEQUENCE[i] : i \in DOMAIN CALIB_SEQUENCE} \cup {"Z"}

CalibScores == {5000, 8000}

\* the wizard started, fed, stopped and cleared in any order
NextCalibration ==
    \/ \E updateCb \in BOOLEAN, completeCb \in BOOLEAN, io \in StorageOutcomes :
          StartCalibration(updateCb, completeCb, io)
    \/ StopCalibration
    \/ \E detectedName \in CalibNames, rawScore \in CalibScores,
          io \in StorageOutcomes :
          FeedSample(detectedName, rawScore, io)
    \/ \E io \in StorageOutcomes : CalibrationReset(io)

SpecCalibration == Init /\ [][NextCalibration]_vars

\* hands classified between engine calls: one for each kind of answer,
\* a hand without an answer, an oversized array and no hand
PureHands == {"thumbsUp", "L70", "L40", "yHoriz", "fistA", "long22", "absent"}

\* classify interleaved with the calls that change the window and the
\* learner
NextPure ==
    \/ \E hand \in PureHands : ClassifyHand(hand)
    \/ EngineInit("bank")
    \/ \E frame \in ResetFrames : Len(log) < MaxFrames /\ Detect(frame)
    \/ \E e \in ThreeNames : Len(log) < MaxFrames /\ Push(e.name, e.confidence)
    \/ TotalObs(stats) < MaxFrames /\ ConfirmSign("A", 6000)
    \/ Reset
    \/ ResetSession

SpecPure == Init /\ [][NextPure]_vars


\* ------------------------------------------------------------------------
\* Properties
\* ------------------------------------------------------------------------
RECURSIVE SetSum(_)
SetSum(S) ==
    IF S = {} THEN 0
    ELSE LET x == CHOOSE y \in S : TRUE IN x + SetSum(S \ {x})

\* the last k elements of s
LastN(s, k) == SubSeq(s, Len(s) - k + 1, Len(s))

\* positions of name in the window, 1 = oldest; their sum is its vote
Positions(name) == {i \in 1..Len(history) : history[i].name = name}
Weight(name) == SetSum(Positions(name))
Total == SetSum(1..Len(history))
InWindow == {history[i].name : i \in 1..Len(history)}
FirstSeen(name) == CHOOSE i \in Positions(name) : \A j \in Positions(name) : i <= j
Reaches48(name) == 100 * Weight(name) >= 48 * Total

Best == TS_best(history)

C2_NoneBelowTwo == Len(history) <= 1 => Best = Null

C2_Witness == Len(history) = 1 /\ history[1].confidence > CONF_ONE /\ Best = Null

\* C3: after 9 consecutive pushes of the same name, whatever was pushed
\* before, best() returns that name with a confidence of at most 1.0.
C3_NineSame ==
    \A x \in Names :
        (/\ Len(log) >= 9
         /\ \A i \in (Len(log) - 8)..Len(log) : log[i].name = x)
        => /\ Best # Null
           /\ Best.name = x
           /\ Best.num <= CONF_ONE * Best.den

\* nine pushes of one name after another name, with confidences above and
\* below 1.0 among them
C3_Witness ==
    /\ Len(log) = 10
    /\ log[1].name # log[2].name
    /\ \A i \in 2..10 : log[i].name = log[2].name
    /\ \E i \in 2..10 : log[i].confidence > CONF_ONE
    /\ \E i \in 2..10 : log[i].confidence < CONF_ONE
    /\ Best # Null

\* C4: best() never returns a name whose vote is below 48% of the total
\* weight; in a 9-entry window a vote of 21 of 45 is rejected, and when no
\* name reaches 48% best() returns none.
C4_Below48Rejected ==
    /\ Best # Null => 100 * Weight(Best.name) >= 48 * Total
    /\ Len(history) = 9 =>
          \A x \in InWindow : Weight(x) = 21 => (Best = Null \/ Best.name # x)
    /\ (\A x \in InWindow : ~Reaches48(x)) => Best = Null

\* a full window where one name holds 21 of 45 and nothing is returned
C4_Witness ==
    /\ Len(history) = 9
    /\ \E x \in InWindow : Weight(x) = 21
    /\ Best = Null

\* C5 as stated: in a 9-entry window every name with a vote of 22 or more
\* is the name best() returns.
C5_Original ==
    Len(history) = 9 =>
        \A x \in InWindow : Weight(x) >= 22 => (Best # Null /\ Best.name = x)

\* C5 amended: in a 9-entry window a name with a vote of 22 or more is
\* eligible: best() returns a name whose vote is at least as large, and
\* returns that very name when every other name has a smaller vote.
C5_AcceptedAt48 ==
    Len(history) = 9 =>
        \A x \in InWindow : Weight(x) >= 22 =>
            /\ Best # Null
            /\ Weight(Best.name) >= Weight(x)
            /\ (\A y \in InWindow \ {x} : Weight(y) < Weight(x)) => Best.name = x

\* a name with exactly 22 of 45 is returned
C5_Witness ==
    /\ Len(history) = 9
    /\ Best # Null
    /\ Weight(Best.name) = 22

\* C6: best() returns the name with the largest vote among those reaching
\* 48%, and of two such names with equal votes the one first seen in the
\* window.
C6_LargestVoteFirstSeen ==
    /\ (\E x \in InWindow : Reaches48(x)) /\ Len(history) >= 2 => Best # Null
    /\ Best # Null =>
          /\ Reaches48(Best.name)
          /\ \A y \in InWindow \ {Best.name} :
                Reaches48(y) =>
                    \/ Weight(y) < Weight(Best.name)
                    \/ /\ Weight(y) = Weight(Best.name)
                       /\ FirstSeen(Best.name) < FirstSeen(y)

\* the window [X, X, Y]: votes 3 and 3, X is returned
C6_Witness ==
    /\ Len(history) = 3
    /\ history[1].name = history[2].name
    /\ history[3].name # history[1].name
    /\ Best # Null
    /\ Best.name = history[1].name


\* C7: adjust returns the score unchanged for a name observed fewer than 8
\* times since the last learner reset, never observed included.
C7_NoOffsetBelow8 ==
    \A n \in Names : \A sc \in AdjustScores :
        calls[n] < 8 => OL_adjust(stats, n, sc) = sc

\* a name observed 7 times whose average is off the target
C7_Witness ==
    \E n \in DOMAIN stats :
        /\ calls[n] = 7
        /\ stats[n].ema # 8500
        /\ OL_adjust(stats, n, 7000) = 7000

\* C8: with at least 8 observations, adjust adds clamp(8.5 - average,
\* -2.5, +2.5) to the score, so the offset lies in [-2.5, +2.5].
C8_OffsetClamped ==
    \A n \in Names : \A sc \in AdjustScores :
        calls[n] >= 8 =>
            /\ n \in DOMAIN stats
            /\ LET offset == OL_adjust(stats, n, sc) - sc
                   gap == 8500 - stats[n].ema
               IN  /\ offset >= -2500
                   /\ offset <= 2500
                   /\ gap > 2500 => offset = 2500
                   /\ gap < -2500 => offset = -2500
                   /\ (gap >= -2500 /\ gap <= 2500) => offset = gap

\* a name observed 8 times whose average is more than 2.5 below the target
C8_Witness ==
    \E n \in DOMAIN stats :
        /\ calls[n] >= 8
        /\ 8500 - stats[n].ema > 2500
        /\ OL_adjust(stats, n, 7000) = 9500

\* C9: observe(name, 8.5) leaves the average no farther from 8.5 than it
\* was and on the same side of 8.5; a first observation sets it to 8.5.
C9_TowardTarget ==
    [][(op'.fn = "observe" /\ op'.score = 8500) =>
          LET n == op'.name
              new == stats'[n].ema
          IN  IF n \in DOMAIN stats
              THEN LET old == stats[n].ema
                   IN  /\ old <= 8500 => (old <= new /\ new <= 8500)
                       /\ old >= 8500 => (8500 <= new /\ new <= old)
              ELSE new = 8500]_vars

\* observe(name, 8.5) has moved an average above 8.5 down
C9_Witness ==
    /\ op.fn = "observe"
    /\ op.score = 8500
    /\ op.before > 8500
    /\ stats[op.name].ema < op.before
    /\ stats[op.name].ema >= 8500

\* C10: after resetSession no sign has learner statistics (the snapshot is
\* empty and adjust returns the score for every name until 8 new
\* confirmations), and the smoothing window is empty.
C10_SessionCleared ==
    /\ op.fn = "resetSession" =>
          /\ DOMAIN stats = {}
          /\ DOMAIN OL_dump(stats) = {}
          /\ history = << >>
          /\ Best = Null
    /\ \A n \in Names : \A sc \in AdjustScores :
          calls[n] < 8 => OL_adjust(stats, n, sc) = sc

\* resetSession has cleared a non-empty window and a learner that was
\* applying an offset
C10_Witness ==
    /\ op.fn = "resetSession"
    /\ op.win > 0
    /\ op.learned
    /\ DOMAIN stats = {}
    /\ history = << >>

\* C11: learner statistics change only in a confirmSign step and are
\* cleared only by resetSession; detect, reset (the hand-loss path), init
\* and debugDump leave every sign's {ema, count} as it was.
C11_LearnerOnlyByConfirm ==
    [][ /\ op'.fn \in {"detect", "reset", "init", "debugDump"} => stats' = stats
        /\ stats' # stats => op'.fn \in {"confirmSign", "resetSession"}
        /\ op'.fn = "confirmSign" => DOMAIN stats \subseteq DOMAIN stats'
        /\ (stats # << >> /\ stats' = << >>) => op'.fn = "resetSession" ]_vars

\* a hand loss has cleared a window while a learned bias is in force
C11_Witness ==
    /\ op.fn = "reset"
    /\ op.win > 0
    /\ \E n \in DOMAIN stats : stats[n].count >= MIN_CONFIRM

\* C12: right after reset() or resetSession() the window is empty and
\* best() returns none, whatever the window held; the first detect after
\* the reset returns none, and detect returns a label only once two frames
\* have been resolved since the window was last cleared.
C12_NoneAfterReset ==
    [][ /\ op'.fn \in {"reset", "resetSession"} =>
              history' = << >> /\ TS_best(history') = Null
        /\ (op.fn \in {"reset", "resetSession"} /\ op'.fn = "detect") => ret' = Null
        /\ (op'.fn = "detect" /\ ret' # Null) => Len(log') >= 2 ]_vars

\* reset has cleared a full window for which best() named a sign
C12_Witness ==
    /\ op.fn = "reset"
    /\ op.win = 9
    /\ op.best
    /\ Best = Null

\* the hand of the last detect call was a total miss: the engine was ready,
\* the hand well formed, and neither resolve nor classify named it
TotalMiss ==
    /\ op.fn = "detect"
    /\ op.estimated
    /\ CR_resolve(Candidates(op.frame.est), HandOf(op.frame.hand)) = Null
    /\ GA_classify(HandOf(op.frame.hand)) = Null

\* C13: on a total-miss frame detect returns none and leaves the smoothing
\* window empty, so no entry pushed before the miss remains to vote.
C13_TotalMissClears == TotalMiss => ret = Null /\ history = << >>

\* a total miss has cleared a full window
C13_Witness == TotalMiss /\ op.win = 9 /\ history = << >>

\* C14: when estimator.estimate throws inside detect, nothing reaches the
\* caller: the frame is handled as one with no candidates (the geometric
\* opinion is pushed, or the frame is a total miss), the engine stays ready
\* with the same estimator, and the next detect on a well-formed hand calls
\* the estimator again.
C14_EstimatorThrowContained ==
    [][ /\ ret' # Thrown
        /\ (op'.fn = "detect" /\ op'.estimated /\ op'.frame.est.threw) =>
              LET geo == GA_classify(HandOf(op'.frame.hand))
              IN  /\ ready' /\ estimator' = estimator
                  /\ IF geo = Null
                     THEN ret' = Null /\ history' = << >>
                     ELSE history' =
                            TS_push(history, geo.name,
                                    RawConf(OL_adjust(stats, geo.name,
                                                      ConfToScore(geo.confidence))))
        /\ (/\ op.fn = "detect" /\ op.estimated /\ op.frame.est.threw
            /\ op'.fn = "detect" /\ ~Malformed(HandOf(op'.frame.hand)))
              => op'.estimated ]_vars

\* the estimator threw and detect returned the geometric label
C14_Witness ==
    /\ op.fn = "detect"
    /\ op.estimated
    /\ op.frame.est.threw
    /\ ret # Null
    /\ ret.name = "THUMBS UP"

\* C15: init never throws; it returns true, with isReady true, exactly when
\* buildGestureEstimator produced the bank, and false, with isReady false,
\* when it produced nothing or threw.  isReady changes only in init, and
\* while it is false every detect returns none and leaves the window alone.
C15_InitFailsClosed ==
    [][ /\ op'.fn = "init" =>
              /\ ret' = [ok |-> op'.outcome = "bank"]
              /\ ready' = (op'.outcome = "bank")
        /\ ready' => estimator' = "bank"
        /\ ready' # ready => op'.fn = "init"
        /\ (~ready /\ op'.fn = "detect") => ret' = Null /\ history' = history ]_vars

\* construction threw after an earlier success: the engine is not ready
\* although it still holds the earlier bank
C15_Witness ==
    /\ op.fn = "init"
    /\ op.outcome = "throws"
    /\ estimator = "bank"
    /\ ~ready
    /\ ret = [ok |-> FALSE]

\* the hand given to the last classify, resolve or detect call
CalledHand == HandOf(IF op.fn = "detect" THEN op.frame.hand ELSE op.hand)

\* the hand is absent or does not have exactly 21 landmarks
NotExactly21(lm) == lm.isNull \/ Len(lm.pt) # 21

\* C16: for every hand that is absent or does not have exactly 21
\* landmarks, fewer or more, classify, resolve and detect return none.
C16_Original ==
    (op.fn \in {"classify", "resolve", "detect"} /\ NotExactly21(CalledHand))
        => ret = Null

\* what the guard lm.length < 21 gives: an absent hand or one with fewer
\* than 21 landmarks is answered with none
C16_UndersizedRejected ==
    (op.fn \in {"classify", "resolve", "detect"} /\ Malformed(CalledHand))
        => ret = Null

\* classify names a hand of 22 landmarks from its first 21
C16_Oversized ==
    /\ op.fn = "classify"
    /\ op.hand = "long22"
    /\ Len(CalledHand.pt) = 22
    /\ ret = Opinion("THUMBS UP", 9500)

\* the arguments of the last resolve call
Top == op.candidates[1]
Lm == HandOf(op.hand)
Geo == GA_classify(Lm)
Resolving == op.fn = "resolve" /\ Len(op.candidates) > 0 /\ ~Malformed(Lm)

\* C17: resolve returns none only if candidates is empty or the hand is
\* malformed; for a non-empty candidate list and a 21-landmark hand it
\* returns a {name, score}, whichever rule applies.
C17_NoneOnlyOnBadInput ==
    op.fn = "resolve" =>
        /\ ret = Null => Len(op.candidates) = 0 \/ Malformed(Lm)
        /\ Resolving => ret # Null /\ DOMAIN ret = {"name", "score"}

\* the M / N / S / T rule met a hand that is not a fist and returned the
\* bank's name
C17_Witness ==
    /\ Resolving
    /\ Top.name = "M"
    /\ GA_fingerStates(Lm).index
    /\ Geo = Null
    /\ ret = Resolution("M", Top.score)

\* the geometric opinion agrees with the top candidate, above 0.80
Agrees == Resolving /\ Geo # Null /\ Geo.name = Top.name /\ Geo.confidence > 8000

\* C18: when the geometric opinion names the top candidate's sign with
\* confidence above 0.80, resolve returns that name with the score
\* min(10, 1.12 x score) (8.0 gives 8.96, 9.5 gives 10), also when the name
\* belongs to a cluster whose rule would have answered otherwise.
C18_AgreementBoost ==
    Agrees =>
        /\ ret.name = Top.name
        /\ 100 * ret.score = Min(100 * 10 * SCORE_ONE, 112 * Top.score)
        /\ Top.score = 8000 => ret.score = 8960
        /\ Top.score = 9500 => ret.score = 10000

\* Y seen by both layers on a hand whose pinky lies flat: the boost answers
\* Y at 10 where the CALL ME / Y rule would have answered CALL ME
C18_Witness ==
    /\ Agrees
    /\ Top = Gesture("Y", 9500)
    /\ CR_CallMeVsY(Top, Lm).name = "CALL ME"
    /\ ret = Resolution("Y", 10000)

\* the geometric opinion names another sign than the top candidate
Disagrees == Resolving /\ Geo # Null /\ Geo.name # Top.name

\* C19: a disagreeing geometric opinion with confidence above 0.87 gives
\* the geometric name (scored at ten times its confidence) whatever cluster
\* the top name belongs to; one with confidence at most 0.87 does not
\* replace the bank's opinion: the answer is the one the cluster rules and
\* the default give, with the bank's score.
C19_OverrideAbove87 ==
    /\ (Disagrees /\ Geo.confidence > 8700) =>
           ret = Resolution(Geo.name, ConfToScore(Geo.confidence))
    /\ (Disagrees /\ Geo.confidence <= 8700) =>
           /\ ret = Disambiguate(Top, Lm)
           /\ ret.score = Top.score
           /\ Top.name \notin ClusterNames => ret.name = Top.name

\* the bank says A, a cluster name, and the geometry says thumbs-up at 0.95
C19_Witness ==
    /\ Disagrees
    /\ Top = Gesture("A", 8000)
    /\ Geo = Opinion("THUMBS UP", 9500)
    /\ ret = Resolution("THUMBS UP", 9500)

\* the bank says B and the geometry says W at 0.86: the bank's opinion stays
C19_WitnessBelow ==
    /\ Disagrees
    /\ Top = Gesture("B", 8000)
    /\ Geo = Opinion("W", 8600)
    /\ ret = Resolution("B", 8000)

\* neither the boost nor the override applies to the last resolve call
Unassisted ==
    /\ Resolving
    /\ ~(Geo # Null /\ Geo.name = Top.name /\ Geo.confidence > 8000)
    /\ ~(Geo # Null /\ Geo.name # Top.name /\ Geo.confidence > 8700)

\* C20: when neither the boost nor the override applies, resolve returns
\* the top candidate's score unchanged under every disambiguation rule, and
\* returns the top candidate's name too when it is in no cluster.
C20_ScorePassesThrough ==
    Unassisted =>
        /\ ret.score = Top.score
        /\ Top.name \notin ClusterNames => ret.name = Top.name

\* HELLO at 9.5 on a closed five-finger hand: the SLOW / HELLO rule
\* substitutes the name and keeps the score
C20_Witness ==
    /\ Unassisted
    /\ Top = Gesture("HELLO", 9500)
    /\ ret = Resolution("SLOW", 9500)

\* the label the C / O / EAT / HOT order gives the hand: a thumb-to-index
\* tip distance under 0.28 of the hand scale, then the lean of the middle
\* finger (tip y minus base y) under -0.06, then over 0.08
CurvedLabel(lm) ==
    IF 10000 * GA_dist2(lm, 8, 4) < 28 * 28 * GA_handScale2(lm) THEN "O"
    ELSE IF PY(lm, 12) - PY(lm, 9) < -6 THEN "EAT"
    ELSE IF PY(lm, 12) - PY(lm, 9) > 8 THEN "HOT"
    ELSE "C"

\* C21: neither classify, resolve nor steps 2 and 3 of detect ever give
\* the name DRINK; when the top name is C, O, EAT, HOT or DRINK and neither
\* the boost nor the override applies, resolve answers O, EAT, HOT or C in
\* that fixed order of tests.
C21_NeverDrink ==
    /\ (op.fn \in {"classify", "resolve"} /\ ret # Null) => ret.name # "DRINK"
    /\ FinalResult(op.candidates, Lm) # Null =>
           FinalResult(op.candidates, Lm).name # "DRINK"
    /\ (Unassisted /\ Top.name \in {"C", "O", "EAT", "HOT", "DRINK"}) =>
           ret.name = CurvedLabel(Lm)

\* the bank's DRINK on an open curved hand is answered C
C21_Witness ==
    /\ Unassisted
    /\ Top = Gesture("DRINK", 8000)
    /\ PY(Lm, 12) - PY(Lm, 9) = -3
    /\ ret = Resolution("C", 8000)

\* the last call was classify on a hand of exactly 21 landmarks
Classifying == op.fn = "classify" /\ ~Lm.isNull /\ Len(Lm.pt) = 21

\* exactly the fingers of the set are extended
Extended(lm, fingers) ==
    LET fs == GA_fingerStates(lm)
    IN  /\ fs.thumb = ("thumb" \in fingers)
        /\ fs.index = ("index" \in fingers)
        /\ fs.middle = ("middle" \in fingers)
        /\ fs.ring = ("ring" \in fingers)
        /\ fs.pinky = ("pinky" \in fingers)

\* C22: for a 21-landmark hand with only the thumb extended and the thumb
\* tip above the index base (smaller y), classify returns THUMBS UP at
\* 0.95, also when the thumb tip is below the middle base at the same time.
C22_ThumbsUpFirst ==
    (Classifying /\ Extended(Lm, {"thumb"}) /\ PY(Lm, 4) < PY(Lm, 5))
        => ret = Opinion("THUMBS UP", 9500)

\* the up and the down test both hold, and the answer is THUMBS UP
C22_Witness ==
    /\ Classifying
    /\ Extended(Lm, {"thumb"})
    /\ PY(Lm, 4) < PY(Lm, 5)
    /\ PY(Lm, 4) > PY(Lm, 9)
    /\ ret = Opinion("THUMBS UP", 9500)

\* the vectors from the thumb base lm[2] to the thumb tip lm[4] and to the
\* index base lm[5]: their dot product and their squared lengths
ThumbDot(lm) ==
      (PX(lm, 4) - PX(lm, 2)) * (PX(lm, 5) - PX(lm, 2))
    + (PY(lm, 4) - PY(lm, 2)) * (PY(lm, 5) - PY(lm, 2))
    + (PZ(lm, 4) - PZ(lm, 2)) * (PZ(lm, 5) - PZ(lm, 2))

ThumbLen2(lm) == GA_dist2(lm, 4, 2)

IndexBaseLen2(lm) == GA_dist2(lm, 5, 2)

\* the opening angle, in bands that leave the threshold of 58 degrees
\* between them: cos 60 = 0.5 and cos 57 = 0.5446, whose square is 0.2966
OpeningAtLeast60(lm) ==
    /\ ThumbLen2(lm) > 0 /\ IndexBaseLen2(lm) > 0
    /\ \/ ThumbDot(lm) <= 0
       \/ 4 * ThumbDot(lm) * ThumbDot(lm) <= ThumbLen2(lm) * IndexBaseLen2(lm)

OpeningAtMost57(lm) ==
    \/ ThumbLen2(lm) = 0 \/ IndexBaseLen2(lm) = 0
    \/ /\ ThumbDot(lm) > 0
       /\ 10000 * ThumbDot(lm) * ThumbDot(lm)
             >= 2967 * ThumbLen2(lm) * IndexBaseLen2(lm)

\* C23: for a hand with only thumb and index extended whose opening angle
\* at the thumb base exceeds 58 degrees, classify returns L at 0.90; every
\* library hand of that shape opens to 60 degrees or more or to 57 or less.
C23_LAbove58 ==
    (Classifying /\ Extended(Lm, {"thumb", "index"})) =>
        /\ OpeningAtLeast60(Lm) \/ OpeningAtMost57(Lm)
        /\ OpeningAtLeast60(Lm) => ret = Opinion("L", 9000)

\* an acute opening above the threshold (63 or 70 degrees) answered L
C23_Witness ==
    /\ Classifying
    /\ Extended(Lm, {"thumb", "index"})
    /\ OpeningAtLeast60(Lm)
    /\ ThumbDot(Lm) > 0
    /\ ret = Opinion("L", 9000)

\* C24: for a hand with only thumb and index extended whose opening angle
\* at the thumb base is 58 degrees or less, classify returns none.
\* Violated: the hand passes the L block without a result and reaches the D
\* branch, which tests index, middle, ring and pinky but not the thumb.
C24_Original ==
    (Classifying /\ Extended(Lm, {"thumb", "index"}) /\ OpeningAtMost57(Lm))
        => ret = Null

\* what the code returns for such a hand: D, at 0.84 when the thumb tip is
\* within 0.6 hand scales of the middle tip and at 0.72 otherwise
C24_NarrowLIsD ==
    (Classifying /\ Extended(Lm, {"thumb", "index"}) /\ OpeningAtMost57(Lm))
        => ret = Opinion("D", IF RatioUnder(GA_dist2(Lm, 4, 12),
                                            GA_handScale2(Lm), 60)
                              THEN 8400 ELSE 7200)

C24_Reached ==
    /\ Classifying
    /\ Extended(Lm, {"thumb", "index"})
    /\ OpeningAtMost57(Lm)
    /\ ret = Opinion("D", 7200)

\* C25: for a hand with only thumb and pinky extended, a horizontal pinky
\* (|dx| > 1.4 |dy| from base to tip) yields CALL ME at 0.85 and any other
\* pinky direction yields Y at 0.88.
\* Violated: the Y block returns for every such hand, so the CALL ME block
\* after it, which has the same condition, is never reached.
PinkyHorizontal(lm) ==
    10 * Abs(PX(lm, 20) - PX(lm, 17)) > 14 * Abs(PY(lm, 20) - PY(lm, 17))

C25_Original ==
    (Classifying /\ Extended(Lm, {"thumb", "pinky"})) =>
        ret = IF PinkyHorizontal(Lm) THEN Opinion("CALL ME", 8500)
                                     ELSE Opinion("Y", 8800)

\* what the code returns: Y for either orientation of the pinky
C25_AlwaysY ==
    (Classifying /\ Extended(Lm, {"thumb", "pinky"})) => ret = Opinion("Y", 8800)

C25_Reached ==
    /\ Classifying
    /\ Extended(Lm, {"thumb", "pinky"})
    /\ PinkyHorizontal(Lm)
    /\ ret = Opinion("Y", 8800)

\* what classify answers for each hand of the library, computed from the
\* landmarks alone in floating point
ClassifyTable ==
    [
      thumbsUp   |-> Opinion("THUMBS UP", 9500),
      thumbsBoth |-> Opinion("THUMBS UP", 9500),
      thumbsDown |-> Opinion("THUMBS DOWN", 9500),
      thumbSide  |-> Null,
      L70        |-> Opinion("L", 9000),
      L40        |-> Opinion("D", 7200),
      L110       |-> Opinion("L", 9000),
      L63        |-> Opinion("L", 9000),
      L56        |-> Opinion("D", 7200),
      iLoveYou   |-> Opinion("I LOVE YOU", 9200),
      yUp        |-> Opinion("Y", 8800),
      yHoriz     |-> Opinion("Y", 8800),
      stop       |-> Opinion("STOP", 8500),
      hello      |-> Opinion("HELLO", 8000),
      slow       |-> Opinion("HELLO", 8000),
      fiveDown   |-> Null,
      dTight     |-> Opinion("D", 8400),
      dLoose     |-> Opinion("D", 7200),
      w          |-> Opinion("W", 8600),
      v          |-> Opinion("V", 8800),
      u          |-> Opinion("U", 8400),
      r          |-> Opinion("U", 8400),
      peace      |-> Null,
      ok         |-> Opinion("OK", 8600),
      okLoose    |-> Opinion("OK", 8600),
      f          |-> Null,
      flatUp     |-> Null,
      flatRight  |-> Null,
      fistA      |-> Null,
      fistS      |-> Null,
      fistT      |-> Null,
      fistM      |-> Null,
      fistN      |-> Null,
      fistEat    |-> Opinion("EAT", 7000),
      cOpen      |-> Null,
      oTight     |-> Null,
      eatUp      |-> Null,
      hotDown    |-> Null,
      point      |-> Null,
      thumbDeep  |-> Opinion("THUMBS DOWN", 9500),
      short20    |-> Null,
      long22     |-> Opinion("THUMBS UP", 9500),
      absent     |-> Null ]

\* C26: classify is deterministic and stateless: after every call, whatever
\* the window and the learner hold and whichever calls came before, the
\* result is the one the landmarks alone determine, and the call leaves
\* the window and the learner statistics as they were.
C26_ClassifyPure ==
    /\ [](op.fn = "classify" => ret = ClassifyTable[op.hand])
    /\ [][op'.fn = "classify" => (history' = history /\ stats' = stats)]_vars

\* a hand classified while the window names another sign and the learner
\* holds statistics
C26_Witness ==
    /\ op.fn = "classify"
    /\ op.hand = "L70"
    /\ ret = Opinion("L", 9000)
    /\ TS_best(history) # Null
    /\ TS_best(history).name = "A"
    /\ "A" \in DOMAIN stats

\* a detect call that returned a sign
Detected == op.fn = "detect" /\ ret # Null

\* C27: every non-none result of detect carries an integer confidence in
\* 0..100, whatever the bank scored, the learner added and the window held,
\* and a name that occurs in the window.
C27_PercentInRange ==
    Detected =>
        /\ ret.confidence \in 0..100
        /\ \E i \in 1..Len(history) : history[i].name = ret.name

\* the learner's offset lifts the bank's 8.0 for A above 10 and the result
\* is 100
C27_Witness ==
    /\ Detected
    /\ "A" \in DOMAIN stats
    /\ stats["A"].count >= MIN_CONFIRM
    /\ OL_adjust(stats, "A", 8000) > 10 * SCORE_ONE
    /\ ret = [name |-> "A", confidence |-> 100]

\* what steps 2 and 3 of the detect call recorded in o resolve
ResolvedBy(o) == FinalResult(Candidates(o.frame.est), HandOf(o.frame.hand))

\* C28: every detect call that resolves a label, through the resolver or
\* through the geometric fallback, pushes exactly one entry to the window
\* whether or not best() then returns a label, and the confidence of every
\* entry detect pushes lies in [0, 1].
C28_OnePushPerDetect ==
    [][(op'.fn = "detect" /\ op'.estimated /\ ResolvedBy(op') # Null) =>
          /\ Len(log') = Len(log) + 1
          /\ log'[Len(log')].name = ResolvedBy(op').name
          /\ log'[Len(log')].confidence \in 0..CONF_ONE
          /\ history' = TS_push(history, log'[Len(log')].name,
                                log'[Len(log')].confidence)]_vars

\* the first detect after a reset: the learner's offset lifts the bank's
\* 8.0 for A to 10.5, the entry is pushed at 1.0 and best() returns none
C28_Witness ==
    /\ op.fn = "detect"
    /\ op.estimated
    /\ ResolvedBy(op) = Resolution("A", 8000)
    /\ OL_adjust(stats, "A", 8000) > 10 * SCORE_ONE
    /\ log = <<[name |-> "A", confidence |-> CONF_ONE]>>
    /\ history = log
    /\ ret = Null

RepeatInCooldown(signName) ==
    /\ signName = host.lastConfirmedSign
    /\ op'.now - host.lastConfirmedTime < addCooldownMs

C30_ClickPassed ==
    /\ op.fn = "guideClick"
    /\ ~op.blocked
    /\ host.lastConfirmedTime = op.now
    /\ stats = << >>

\* the score the bank gave name in the frame of the call recorded in o
BankScore(o, name) ==
    LET gs == o.frame.est.gestures
        i == CHOOSE i \in 1..Len(gs) : gs[i].name = name
    IN  gs[i].score

\* a runDetection call that reached GestureEngine.confirmSign
Forwarded == op.fn = "runDetection" /\ op.notified

\* C31: the score the host forwards to confirmSign on a debounce
\* confirmation is the raw gesture-bank score of the confirmed sign,
\* whatever the learner holds.
\* Violated: the host forwards result.confidence / 10, and result is what
\* detect returned: the learner-adjusted, clamped, window-averaged and
\* rounded percentage.
C31_Original ==
    Forwarded => host.lastRawFpScore = BankScore(op, ret.name)

\* what the code forwards: a tenth of the percentage detect returned
C31_ForwardsDetectResult ==
    Forwarded => host.lastRawFpScore = PercentToScore(ret.confidence)

\* the bank scores A at 8.0; with eight earlier confirmations at 6.0 the
\* learner adds 2.5, detect returns 100 and the host forwards 10.0
C31_Reached ==
    /\ Forwarded
    /\ ret.name = "A"
    /\ BankScore(op, "A") = 8000
    /\ host.lastRawFpScore = 10 * SCORE_ONE

\* on an untaught learner the same frames forward 8.0
C31_ReachedUntaught ==
    /\ Forwarded
    /\ ret.name = "A"
    /\ stats["A"].count = 1
    /\ host.lastRawFpScore = 8000

\* the step is a runDetection call that got past the throttle
Processed == op'.fn = "runDetection" /\ ~op'.throttled

\* the step leaves the pending sign and the time it became pending alone
HoldKept ==
    /\ host'.pendingSign = host.pendingSign
    /\ host'.pendingSignTime = host.pendingSignTime

\* C32: the host confirms a sign only after it was held steadily.  Step by
\* step: a confirmation of X needs X pending for at least debounceMs and
\* clears the pending sign; a processed detection of X either keeps the
\* hold of X or, when X was not pending, starts one at the current clock; a
\* none result and a hand loss clear the pending sign; no other step
\* touches the hold.  By induction a pending X at time t means every
\* processed detection since t returned X.
C32_ConfirmNeedsFullHold ==
    [][/\ (Processed /\ op'.confirmed) =>
              /\ ret'.name = host.pendingSign
              /\ op'.now - host.pendingSignTime >= debounceMs
              /\ host'.pendingSign = ""
       /\ (Processed /\ ret' # Null /\ ~op'.confirmed) =>
              /\ host'.pendingSign = ret'.name
              /\ IF ret'.name = host.pendingSign
                 THEN /\ host'.pendingSignTime = host.pendingSignTime
                      /\ op'.now - host.pendingSignTime < debounceMs
                 ELSE host'.pendingSignTime = op'.now
       /\ (Processed /\ ret' = Null) => host'.pendingSign = ""
       /\ op'.fn = "onResults" => host'.pendingSign = ""
       /\ (op'.fn \notin {"runDetection", "onResults"}
             \/ (op'.fn = "runDetection" /\ op'.throttled)) => HoldKept
       /\ (host'.lastConfirmedTime # host.lastConfirmedTime
             /\ op'.fn # "guideClick") => (Processed /\ op'.confirmed)]_vars

\* L confirmed after a hold that began when the result changed from A to
\* L: the pending sign is cleared again
C32_Witness ==
    /\ op.fn = "runDetection"
    /\ op.confirmed
    /\ ret.name = "L"
    /\ \E i \in 1..Len(log) : log[i].name = "A"
    /\ host.lastConfirmedSign = "L"
    /\ host.lastConfirmedTime = op.now
    /\ host.pendingSign = ""
    /\ host.pendingSignTime = 0

\* the learner holds statistics for exactly the signs observed since its
\* last reset, each with the number of those observations as its count
CountsMatchCalls ==
    /\ DOMAIN stats = {n \in Names : calls[n] > 0}
    /\ \A n \in DOMAIN stats : stats[n].count = calls[n]

\* the last call was the first observation of its sign
FirstObserved == op.fn = "observe" /\ stats[op.name].count = 1

\* two doubles of one exponent at most one unit in the last place apart
WithinOneUlp(x, y) ==
    /\ x.e = y.e
    /\ \/ x.n = y.n
       \/ BigAdd(x.n, <<1>>, 5) = y.n
       \/ BigAdd(y.n, <<1>>, 5) = x.n

\* C33 as stated: counts equal the observe calls since the last reset,
\* statistics exist only for observed signs, and the first observation sets
\* the average to exactly the observed score.
\* Violated in the last part: 0.12 * 7.7 + (1 - 0.12) * 7.7 is the double
\* below 7.7.
C33_Original ==
    /\ CountsMatchCalls
    /\ FirstObserved => stats[op.name].double = ScoreDouble(op.score)

\* C33: counts equal the observe calls since the last reset, statistics
\* exist only for observed signs, and the first observation sets the
\* average to the observed score up to the rounding of the double
\* arithmetic: at most one unit in the last place away, and equal to it to
\* the thousandth.
C33_FirstAverageWithinRounding ==
    /\ CountsMatchCalls
    /\ FirstObserved =>
          /\ stats[op.name].ema = op.score
          /\ WithinOneUlp(stats[op.name].double, ScoreDouble(op.score))

\* a first observation of 7.7 whose average is not the double 7.7
C33_Witness ==
    /\ FirstObserved
    /\ op.score = 7700
    /\ stats[op.name].double # ScoreDouble(7700)
    /\ stats[op.name].ema = 7700
    /\ calls[op.name] = 1

\* a first observation of 8.5, whose average is the double 8.5
C33_ExactFor85 ==
    /\ FirstObserved
    /\ op.score = 8500
    /\ stats[op.name].double = ScoreDouble(8500)

\* the confidences of name's entries in the window, each times its weight,
\* summed over the positions in ps
RECURSIVE WeightedConf(_)
WeightedConf(ps) ==
    IF ps = {} THEN 0
    ELSE LET i == CHOOSE j \in ps : TRUE
         IN  history[i].confidence * i + WeightedConf(ps \ {i})

ConfidencesOf(name) == {history[i].confidence : i \in Positions(name)}
Smallest(S) == CHOOSE x \in S : \A y \in S : x <= y
Largest(S) == CHOOSE x \in S : \A y \in S : y <= x

\* best() returns the weighted average of the winning name's entries,
\* capped at 1.0
IsCappedAverage ==
    /\ Best.den = Weight(Best.name)
    /\ Best.num = Min(CONF_ONE * Weight(Best.name),
                      WeightedConf(Positions(Best.name)))

\* C34 as stated: the confidence best() returns is the capped weighted
\* average of the winning name's entries and lies between the smallest and
\* the largest confidence of those entries.
\* Violated when every entry of the name is above 1.0: the result is 1.0.
C34_Original ==
    Best # Null =>
        /\ IsCappedAverage
        /\ Smallest(ConfidencesOf(Best.name)) * Best.den <= Best.num
        /\ Best.num <= Largest(ConfidencesOf(Best.name)) * Best.den

\* C34: the confidence best() returns is the recency-weighted average of
\* the confidences of the winning name's entries, capped at 1.0, whatever
\* the other names' entries hold; it lies between the smallest and the
\* largest confidence of those entries, each capped at 1.0.
C34_CappedWeightedAverage ==
    Best # Null =>
        /\ IsCappedAverage
        /\ Min(CONF_ONE, Smallest(ConfidencesOf(Best.name))) * Best.den
              <= Best.num
        /\ Best.num
              <= Min(CONF_ONE, Largest(ConfidencesOf(Best.name))) * Best.den

\* A wins with entries at 0.9 and at 1.5 next to an entry of S; the
\* average is strictly between 0.9 and 1.0
C34_Witness ==
    /\ Best # Null
    /\ Best.name = "A"
    /\ ConfidencesOf("A") = {9000, 15000}
    /\ Positions("S") # {}
    /\ 9000 * Best.den < Best.num
    /\ Best.num < CONF_ONE * Best.den

\* every entry of the winning name is at 1.5 and best() returns 1.0
C34_AllAboveOne ==
    /\ Best # Null
    /\ Smallest(ConfidencesOf(Best.name)) > CONF_ONE
    /\ Best.num = CONF_ONE * Best.den

\* the last three pushes since the window was emptied all named x
ThreeInARow(x) ==
    /\ Len(log) >= 3
    /\ \A i \in (Len(log) - 2)..Len(log) : log[i].name = x

\* C35: after three consecutive pushes of one name with no reset in
\* between, best() returns that name whatever the window held before: the
\* name then holds more than half of the total weight, for every window
\* length from 3 to 9.
C35_ThreePushesSwitch ==
    \A x \in Names :
        ThreeInARow(x) =>
            /\ 2 * Weight(x) > Total
            /\ Best # Null
            /\ Best.name = x

\* a full window whose six older entries name other signs: the three
\* newest hold 24 of 45
C35_Witness ==
    /\ Len(history) = 9
    /\ Len(log) > 9
    /\ \E x \in Names :
          /\ ThreeInARow(x)
          /\ Positions(x) = {7, 8, 9}
          /\ Weight(x) = 24
          /\ Best.name = x

\* C36: in a window of four or more entries best() never returns a name
\* that appears in exactly one entry, the newest entry included.
C36_SingleFrameIgnored ==
    (Len(history) >= 4 /\ Best # Null) =>
        Cardinality(Positions(Best.name)) >= 2

\* four entries, the newest the only one of its name and no other name
\* above it in votes: nothing is returned
C36_Witness ==
    /\ Len(history) = 4
    /\ Positions(history[4].name) = {4}
    /\ \A x \in InWindow : Weight(x) <= 4
    /\ Best = Null

\* the last call was a detect that stopped at its guard: the engine was
\* not ready, or the hand was absent or had fewer than 21 landmarks
RejectedFrame == op.fn = "detect" /\ ~op.estimated

\* C37: a detect call with an absent or too-short hand, or on an engine
\* that is not ready, returns none and leaves the smoothing window and the
\* learner as they were; the entries pushed before it are still in the
\* window when the next valid frame is pushed, and a non-empty window is
\* emptied only by reset, resetSession or a total-miss frame.
C37_RejectedFrameTouchesNothing ==
    [][ /\ (op'.fn = "detect"
            /\ (~ready \/ Malformed(HandOf(op'.frame.hand)))) =>
              /\ ret' = Null
              /\ ~op'.estimated
              /\ history' = history
              /\ log' = log
              /\ stats' = stats
        /\ (RejectedFrame /\ op'.fn = "detect" /\ op'.estimated
            /\ history' # << >>) =>
              /\ Len(history') = op.win + 1
              /\ SubSeq(history', 1, op.win) = history
        /\ (history # << >> /\ history' = << >>) =>
              \/ op'.fn \in {"reset", "resetSession"}
              \/ TotalMiss' ]_vars

\* a frame without a hand arrives after two valid frames: it is answered
\* with none and the two entries still name a sign
C37_Witness ==
    /\ RejectedFrame
    /\ ready
    /\ op.frame.hand \in {"absent", "short20"}
    /\ op.win = 2
    /\ Len(history) = 2
    /\ ret = Null
    /\ Best # Null

\* the same on an engine that a failed init left not ready
C37_NotReadyWitness ==
    /\ RejectedFrame
    /\ ~ready
    /\ op.frame.hand = "thumbsUp"
    /\ Len(history) = 2
    /\ Best # Null

\* the last call was a feedSample that closed the tenth step
TenthCommit ==
    /\ op.fn = "feedSample"
    /\ op.committed
    /\ op.read = Len(CALIB_SEQUENCE) - 1

\* C38, the states: while the wizard runs its step index is one of the ten
\* of the sequence, feedSample reads the expected sign inside the sequence
\* and never throws, and between calls the buffer holds fewer than 15
\* samples.
C38_StepAndBufferInBounds ==
    /\ calibration.isRunning =>
          calibration.stepIndex \in 0..(Len(CALIB_SEQUENCE) - 1)
    /\ calibration.stepIndex \in 0..Len(CALIB_SEQUENCE)
    /\ Len(calibration.sampleBuf) < SAMPLES_NEEDED
    /\ ret # Thrown
    /\ (op.fn = "feedSample" /\ op.wasRunning) =>
          op.read + 1 \in DOMAIN CALIB_SEQUENCE

\* C38, the steps: a sample is counted only when its name is the expected
\* sign and its score exceeds 5, and every such sample of a running wizard
\* is; the step that commits the tenth sign stops the wizard, runs save()
\* and calls onComplete once, and no other step saves, completes or, short
\* of stopCalibration, ends the run.
C38_CountsAndCompletesOnce ==
    [][ /\ op'.fn = "feedSample" =>
              /\ op'.pushed <=>
                    /\ calibration.isRunning
                    /\ op'.matches
                    /\ op'.score > 5 * SCORE_ONE
              /\ ~op'.pushed => calibration' = calibration
              /\ op'.pushed =>
                    \/ calibration'.sampleBuf =
                          Append(calibration.sampleBuf, op'.score)
                    \/ /\ op'.committed
                       /\ Len(calibration.sampleBuf) = SAMPLES_NEEDED - 1
                       /\ calibration'.sampleBuf = << >>
                       /\ calibration'.stepIndex = calibration.stepIndex + 1
        /\ TenthCommit' <=>
              (calibration.isRunning /\ calibration'.stepIndex = Len(CALIB_SEQUENCE))
        /\ TenthCommit' =>
              /\ ~calibration'.isRunning
              /\ op'.saved
              /\ op'.completions = (IF calibration.onComplete THEN 1 ELSE 0)
              /\ calibration'.storage # calibration.storage =>
                    calibration'.storage =
                       [present |-> TRUE, item |-> calibration'.data]
        /\ (op'.fn = "feedSample" /\ ~TenthCommit') =>
              /\ ~op'.saved
              /\ op'.completions = 0
              /\ calibration'.isRunning = calibration.isRunning
              /\ calibration'.storage = calibration.storage
        /\ (calibration.isRunning /\ ~calibration'.isRunning) =>
              TenthCommit' \/ op'.fn = "stopCalibration" ]_vars

\* C38: the wizard's step index and sample buffer stay inside their bounds
\* in every state, only matching samples scored above 5 are counted, and
\* the tenth commit stops the wizard, saves and completes exactly once.
C38_WizardBounded == []C38_StepAndBufferInBounds /\ C38_CountsAndCompletesOnce

\* the tenth step has just been committed with a completion callback set:
\* the wizard stopped at step index 10 with all ten signs stored
C38_Witness ==
    /\ TenthCommit
    /\ op.completions = 1
    /\ op.saved
    /\ ~calibration.isRunning
    /\ calibration.stepIndex = Len(CALIB_SEQUENCE)
    /\ calibration.sampleBuf = << >>
    /\ DOMAIN calibration.data = CalibNames \ {"Z"}
    /\ calibration.storage = [present |-> TRUE, item |-> calibration.data]

\* a sample of the expected sign scored exactly 5 was turned away with
\* fourteen samples in the buffer
C38_BoundaryWitness ==
    /\ op.fn = "feedSample"
    /\ op.wasRunning
    /\ op.matches
    /\ op.score = 5 * SCORE_ONE
    /\ ~op.pushed
    /\ Len(calibration.sampleBuf) = SAMPLES_NEEDED - 1

====
